---- MODULE Spec2Model ----
(***************************************************************************)
(* qbak: timestamped backup copies with an interrupt-safe operation        *)
(* registry.  The model covers the registry and its guards (signal.rs),    *)
(* the atomic copy protocol and the directory walk (backup.rs) and the     *)
(* command-line driver with its signal handler (main.rs).                  *)
(***************************************************************************)
EXTENDS Naturals, Sequences, FiniteSets, Bags, TLC

VARIABLES
    fs,           \* the filesystem: a function from the existing paths to nodes
    undeletable,  \* paths whose removal the operating system refuses
    flagVal,      \* the allocated Arc<AtomicBool> values, by flag id
    regOps,       \* the allocated Mutex<HashSet<PathBuf>> values, by registry id
    global,       \* GLOBAL_CONTEXT: NoCtx or a context
    contexts,     \* the BackupContext values client code holds
    guards,       \* the bag of BackupOperationGuard values not yet released or swept
    last,         \* the operation that returned last (history)
    bk,           \* the thread running backup_file or backup_directory
    cli           \* the process of main.rs: its signal handler and its exit

vars == <<fs, undeletable, flagVal, regOps, global, contexts, guards, last,
          bk, cli>>

-----------------------------------------------------------------------------
(* Bounds of the model.                                                    *)

\* how many contexts (a flag, a registry or both) a run allocates
MaxContexts == 2
\* how many guards exist at a time
MaxGuards == 2
\* how many 64 KiB chunks the larger source files hold
MaxChunks == 2

-----------------------------------------------------------------------------
(* Paths and the filesystem.                                               *)

\* A path segment.  bak marks a generated backup name, n its collision
\* counter (0: none) and tmp the process id of a temp name (0: not a temp);
\* dot tells that the name is written with a leading '.'.
Name(s) == [stem |-> s, bak |-> FALSE, n |-> 0, tmp |-> 0, dot |-> FALSE]

\* the name '.' followed by s
HiddenName(s) == [Name(s) EXCEPT !.dot = TRUE]

\* a generated backup name of the stem s
BakName(s) == [Name(s) EXCEPT !.bak = TRUE]

Parent(p) == SubSeq(p, 1, Len(p) - 1)

IsPrefix(p, q) == Len(p) <= Len(q) /\ SubSeq(q, 1, Len(p)) = p

\* mode is the permission set of the entry: "rw" is what the process
\* creates entries with, "ro" a set that differs from it
FileNode(d) == [kind |-> "file", data |-> d, mode |-> "rw"]
DirNode == [kind |-> "dir", data |-> <<>>, mode |-> "rw"]

\* a symbolic link; data is the path fs::read_link resolves to
LinkNode(target) == [kind |-> "link", data |-> target, mode |-> "rw"]

\* the entry with other permissions than the process creates entries with
ReadOnly(node) == [node EXCEPT !.mode = "ro"]

Exists(f, p) == p \in DOMAIN f
IsDir(f, p) == Exists(f, p) /\ f[p].kind = "dir"
IsFile(f, p) == Exists(f, p) /\ f[p].kind = "file"
IsLink(f, p) == Exists(f, p) /\ f[p].kind = "link"

\* the directory p exists (the working directory <<>> always does)
DirExists(f, p) == p = <<>> \/ IsDir(f, p)

\* std::fs::read_dir: the names of the entries of dir
read_dir(f, dir) ==
    {q[Len(q)] : q \in {r \in DOMAIN f : Len(r) = Len(dir) + 1 /\ IsPrefix(dir, r)}}

\* p and everything beneath it
Under(f, p) == {q \in DOMAIN f : IsPrefix(p, q)}

Restrict(f, S) == [q \in S |-> f[q]]
Put(f, p, node) == [q \in DOMAIN f \cup {p} |-> IF q = p THEN node ELSE f[q]]

\* std::fs::remove_file: the possible filesystems after the call
remove_file(f, bad, p) ==
    IF Exists(f, p) /\ ~IsDir(f, p) /\ p \notin bad
    THEN {Restrict(f, DOMAIN f \ {p})}
    ELSE {f}

\* remove_dir_all that removes the directory entry and leaves what it held
remove_dir_all_top_only(f, bad, p) ==
    IF ~IsDir(f, p) THEN {f} ELSE {Restrict(f, DOMAIN f \ {p})}

\* std::fs::remove_dir_all: removes the subtree; when an entry cannot be
\* removed the call stops with an error, having removed some of the entries
\* that hold nothing undeletable (which ones depends on the listing order).
remove_dir_all(f, bad, p) ==
    LET sub == Under(f, p)
        stuck == {q \in sub : \E b \in bad \cap sub : IsPrefix(q, b)}
        free == sub \ stuck
    IN  IF ~IsDir(f, p) THEN {f}
        ELSE IF stuck = {} THEN {Restrict(f, DOMAIN f \ sub)}
        ELSE {Restrict(f, DOMAIN f \ R) :
                R \in {X \in SUBSET free :
                         \A q \in X : \A r \in free : IsPrefix(q, r) => r \in X}}

\* std::fs::create_dir_all (no ancestor of p is a file in this model)
create_dir_all(f, p) ==
    [q \in DOMAIN f \cup {SubSeq(p, 1, k) : k \in 1..Len(p)} |->
        IF q \in DOMAIN f THEN f[q] ELSE DirNode]

-----------------------------------------------------------------------------
(* signal.rs: BackupContext, the global context and the guard.             *)

NoCtx == [flag |-> 0, reg |-> 0]
Ctx(f, r) == [flag |-> f, reg |-> r]

\* BackupContext::is_interrupted
ctx_is_interrupted(c) == flagVal[c.flag]

\* signal::is_interrupted (the global function the hot paths poll)
is_interrupted == IF global = NoCtx THEN FALSE ELSE ctx_is_interrupted(global)

\* BackupContext::get_active_operations
ctx_get_active_operations(c) == regOps[c.reg]

\* signal::get_active_operations
get_active_operations ==
    IF global = NoCtx THEN {} ELSE ctx_get_active_operations(global)

\* BackupOperationGuard::new
BackupOperationGuard_new(p, c) ==
    [backup_path |-> p, context |-> c, registered |-> TRUE,
     completed |-> FALSE, phase |-> "live"]

\* The record of the operation that returned last: its name, the path and
\* registry it worked on, the flag value it saw and, for a cleanup, the
\* snapshot it iterated, the paths of it that existed and the paths that
\* guards dropped under interruption had left behind.
Op(o, p, r, s) == [op |-> o, path |-> p, reg |-> r, seen |-> s,
                   paths |-> {}, existed |-> {}, swept |-> {}]

NoOp == Op("other", <<>>, 0, FALSE)

\* The effect of BackupContext::register_operation on the registry and on
\* the guards: p is inserted and a guard bound to p and to c is returned.
RegisterEffect(c, p) ==
    /\ regOps' = [regOps EXCEPT ![c.reg] = @ \cup {p}]
    /\ guards' = guards (+) SetToBag({BackupOperationGuard_new(p, c)})

\* BackupContext::remove_operation
remove_operation(ops, c, p) == [ops EXCEPT ![c.reg] = @ \ {p}]

-----------------------------------------------------------------------------
(* Operations of signal.rs, as client code may call them.                  *)

\* BackupContext::new
BackupContext_new ==
    /\ Len(regOps) < MaxContexts
    /\ flagVal' = Append(flagVal, FALSE)
    /\ regOps' = Append(regOps, {})
    /\ contexts' = contexts \cup {Ctx(Len(flagVal) + 1, Len(regOps) + 1)}
    /\ last' = NoOp
    /\ UNCHANGED <<fs, undeletable, global, guards, bk, cli>>

\* set_global_context that empties the registries of the other contexts
set_global_context_clearing(c) ==
    /\ global' = c
    /\ regOps' = [r \in DOMAIN regOps |-> IF r = c.reg THEN regOps[r] ELSE {}]
    /\ last' = NoOp
    /\ UNCHANGED <<fs, undeletable, flagVal, contexts, guards, bk, cli>>

\* signal::set_global_context
set_global_context(c) ==
    /\ global' = c
    /\ last' = NoOp
    /\ UNCHANGED <<fs, undeletable, flagVal, regOps, contexts, guards, bk, cli>>

\* signal::set_interrupt_flag: a context around the given flag and a NEW,
\* empty registry becomes the global context.
set_interrupt_flag(f) ==
    /\ Len(regOps) < MaxContexts
    /\ regOps' = Append(regOps, {})
    /\ global' = Ctx(f, Len(regOps) + 1)
    /\ last' = NoOp
    /\ UNCHANGED <<fs, undeletable, flagVal, contexts, guards, bk, cli>>

\* BackupContext::set_interrupted
set_interrupted(c, b) ==
    /\ flagVal' = [flagVal EXCEPT ![c.flag] = b]
    /\ last' = NoOp
    /\ UNCHANGED <<fs, undeletable, regOps, global, contexts, guards, bk, cli>>

\* BackupContext::register_operation
register_operation(c, p) ==
    /\ BagCardinality(guards) < MaxGuards
    /\ RegisterEffect(c, p)
    /\ last' = NoOp
    /\ UNCHANGED <<fs, undeletable, flagVal, global, contexts, bk, cli>>

\* The effect of signal::create_backup_guard: register with the global
\* context, which is created first when there is none.
CreateGuardEffect(p) ==
    IF global # NoCtx
    THEN /\ RegisterEffect(global, p)
         /\ UNCHANGED <<flagVal, global>>
    ELSE /\ Len(regOps) < MaxContexts
         /\ flagVal' = Append(flagVal, FALSE)
         /\ global' = Ctx(Len(flagVal) + 1, Len(regOps) + 1)
         /\ regOps' = Append(regOps, {p})
         /\ guards' = guards (+) SetToBag({BackupOperationGuard_new(p, global')})

\* signal::create_backup_guard
create_backup_guard(p) ==
    /\ BagCardinality(guards) < MaxGuards
    /\ CreateGuardEffect(p)
    /\ last' = NoOp
    /\ UNCHANGED <<fs, undeletable, contexts, bk, cli>>

\* drop_removes without the check of the interrupt flag
drop_removes_unconditional(g) == g.registered /\ ~g.completed

\* Drop for BackupOperationGuard: whether the drop removes the path
drop_removes(g) ==
    g.registered /\ ~g.completed /\ ~ctx_is_interrupted(g.context)

\* CompleteEffect leaving the removal to the drop of the consumed guard,
\* which removes the path only without interruption
CompleteEffect_by_drop(g) ==
    /\ regOps' = IF drop_removes(g)
                 THEN remove_operation(regOps, g.context, g.backup_path)
                 ELSE regOps
    /\ guards' = guards (-) SetToBag({g})
    /\ fs' = fs

\* The effect of BackupOperationGuard::complete on guard g: the path leaves
\* the registry, the fields are set, and the drop of the consumed guard at
\* the end of complete finds completed set.  Nothing is done on disk.
CompleteEffect(g) ==
    LET done == [g EXCEPT !.registered = FALSE, !.completed = TRUE]
        removed == remove_operation(regOps, g.context, g.backup_path)
    IN  /\ regOps' = IF drop_removes(done)
                     THEN remove_operation(removed, done.context, done.backup_path)
                     ELSE removed
        /\ guards' = guards (-) SetToBag({g})
        /\ fs' = fs

\* BackupOperationGuard::complete
complete(g) ==
    /\ g.phase = "live"
    /\ CompleteEffect(g)
    /\ last' = Op("complete", g.backup_path, g.context.reg,
                  ctx_is_interrupted(g.context))
    /\ UNCHANGED <<undeletable, flagVal, global, contexts, bk, cli>>

\* DropEffect that never touches the registry
DropEffect_leaves_path(g) ==
    /\ regOps' = regOps
    /\ guards' = (guards (-) SetToBag({g}))
                     (+) SetToBag({[g EXCEPT !.phase = "leaked"]})
    /\ fs' = fs

\* DropEffect that deletes the unfinished artifact itself
DropEffect_deleting(g) ==
    /\ IF drop_removes(g)
       THEN /\ regOps' = remove_operation(regOps, g.context, g.backup_path)
            /\ guards' = guards (-) SetToBag({g})
       ELSE /\ regOps' = regOps
            /\ guards' = (guards (-) SetToBag({g}))
                             (+) SetToBag({[g EXCEPT !.phase = "leaked"]})
    /\ fs' = Restrict(fs, DOMAIN fs \ Under(fs, g.backup_path))

\* The effect of Drop for BackupOperationGuard on a guard that was not
\* completed: without interruption the path leaves the registry, with it the
\* path is left there for the cleanup pass (the bag keeps the dropped guard
\* as "leaked" until that pass, as history).  Nothing is done on disk.
DropEffect(g) ==
    /\ IF drop_removes(g)
       THEN /\ regOps' = remove_operation(regOps, g.context, g.backup_path)
            /\ guards' = guards (-) SetToBag({g})
       ELSE /\ regOps' = regOps
            /\ guards' = (guards (-) SetToBag({g}))
                             (+) SetToBag({[g EXCEPT !.phase = "leaked"]})
    /\ fs' = fs

\* Drop for BackupOperationGuard (the guard goes out of scope)
drop(g) ==
    /\ g.phase = "live"
    /\ DropEffect(g)
    /\ last' = Op("drop", g.backup_path, g.context.reg,
                  ctx_is_interrupted(g.context))
    /\ UNCHANGED <<undeletable, flagVal, global, contexts, bk, cli>>

\* cleanup_one that deletes everything as a file
cleanup_one_as_file(f, bad, p) ==
    IF ~Exists(f, p) THEN {f} ELSE remove_file(f, bad, p)

\* The body of the loop of cleanup_active_operations_with_mode for one path:
\* a path that exists is deleted, a directory with its subtree, anything
\* else as a file; the result of the delete is only logged.
cleanup_one(f, bad, p) ==
    IF ~Exists(f, p) THEN {f}
    ELSE IF IsDir(f, p) THEN remove_dir_all(f, bad, p)
    ELSE remove_file(f, bad, p)

\* The loop of cleanup_active_operations_with_mode over the snapshot S (a
\* HashSet, iterated in any order): the possible filesystems after it.
RECURSIVE cleanup_loop(_, _, _)
cleanup_loop(f, bad, S) ==
    IF S = {} THEN {f}
    ELSE UNION {UNION {cleanup_loop(f2, bad, S \ {p}) : f2 \in cleanup_one(f, bad, p)} :
                  p \in S}

\* CleanupEffect that keeps the paths it could not delete registered
CleanupEffect_keeps_failed(c) ==
    /\ fs' \in cleanup_loop(fs, undeletable, ctx_get_active_operations(c))
    /\ regOps' = [regOps EXCEPT ![c.reg] = {p \in @ : Exists(fs', p)}]

\* The effect of BackupContext::cleanup_active_operations_with_mode: every
\* path of the snapshot is visited, then the registry is cleared.
CleanupEffect(c) ==
    /\ fs' \in cleanup_loop(fs, undeletable, ctx_get_active_operations(c))
    /\ regOps' = [regOps EXCEPT ![c.reg] = {}]

\* BackupContext::cleanup_active_operations_with_mode (and the global
\* function of that name, which calls it on the global context)
cleanup_active_operations_with_mode(c) ==
    /\ CleanupEffect(c)
    /\ guards' = [g \in {h \in BagToSet(guards) :
                            ~(h.phase = "leaked" /\ h.context.reg = c.reg)} |->
                     guards[g]]
    /\ last' = [Op("cleanup", <<>>, c.reg, FALSE) EXCEPT
                   !.paths = ctx_get_active_operations(c),
                   !.existed = {p \in ctx_get_active_operations(c) : Exists(fs, p)},
                   !.swept = {g.backup_path : g \in {h \in BagToSet(guards) :
                                h.phase = "leaked" /\ h.context.reg = c.reg}}]
    /\ bk' = [bk EXCEPT !.raced = @ \/ (/\ bk.pc \notin {"idle", "register", "returned"}
                                         /\ bk.guard.context.reg = c.reg)]
    /\ UNCHANGED <<undeletable, flagVal, global, contexts, cli>>

-----------------------------------------------------------------------------
(* naming.rs and backup.rs: names, the atomic copy and the directory walk. *)

\* the largest collision counter resolve_collision tries
MaxCollision == 9999

\* std::process::id() of the running qbak
ProcessId == 1

\* Config::default: max_filename_length
max_filename_length == 255

\* the length of the timestamp %Y%m%dT%H%M%S and of the suffix "qbak"
TimestampLen == 15
SuffixLen == 4

\* the length of a stem, and whether it holds one of < > : " | ? * or a
\* control character or is a reserved device name (stems are opaque
\* strings; these two tables stand for their characters)
StemLen(s) == IF s = "long" THEN 240 ELSE 1
HasInvalidChars(s) == s = "a:b"

\* the length of "<stem>-<timestamp>-<suffix>" for the segment seg
backup_name_len(seg) == StemLen(seg.stem) + 1 + TimestampLen + 1 + SuffixLen

\* validate_filename_length that accepts every length
validate_filename_length_unlimited(seg) == "Ok"

\* naming::validate_filename_length
validate_filename_length(seg) ==
    IF backup_name_len(seg) > max_filename_length THEN "FilenameTooLong" ELSE "Ok"

\* naming::validate_filesystem_chars
validate_filesystem_chars(seg) ==
    IF HasInvalidChars(seg.stem) THEN "InvalidFilesystemChars" ELSE "Ok"

\* naming::generate_backup_name, its result kind: the two validations in
\* the order of the code
generate_backup_name_result(source) ==
    IF validate_filename_length(source[Len(source)]) # "Ok"
    THEN validate_filename_length(source[Len(source)])
    ELSE validate_filesystem_chars(source[Len(source)])

\* a file whose backup name is too long, a directory whose name holds an
\* invalid character, and a target that does not exist
SrcLong == <<Name("long")>>
SrcBad == <<Name("a:b")>>
SrcMissing == <<Name("m")>>

\* a file the process loses access to between the two checks of
\* validate_source: exists() succeeds, metadata() is denied
SrcRevoked == <<Name("r")>>

\* utils::validate_source
validate_source(f, source) ==
    IF ~Exists(f, source) THEN "SourceNotFound"
    ELSE IF source = SrcRevoked THEN "PermissionDenied"
    ELSE "Ok"

\* naming::generate_backup_name: the backup name beside the source (the
\* timestamp is the second the run happens in)
generate_backup_name(source) ==
    Append(Parent(source), [source[Len(source)] EXCEPT !.bak = TRUE])

\* base with the collision counter k
Numbered(base, k) == Append(Parent(base), [base[Len(base)] EXCEPT !.n = k])

\* a counter range that leaves out the first counter
collision_counters_from_two == 2..MaxCollision

\* naming::resolve_collision: the range of its for loop
collision_counters == 1..MaxCollision

\* naming::resolve_collision: base when it is free, else base with the first
\* free counter, else an error (<<>>)
resolve_collision(f, base) ==
    IF ~Exists(f, base) THEN base
    ELSE IF \A k \in collision_counters : Exists(f, Numbered(base, k)) THEN <<>>
    ELSE Numbered(base, CHOOSE k \in collision_counters :
                          /\ ~Exists(f, Numbered(base, k))
                          /\ \A j \in 1..(k - 1) : Exists(f, Numbered(base, j)))

\* create_temp_backup_path that hands out the destination itself
create_temp_backup_path_in_place(p) == p

\* backup::create_temp_backup_path: .qbak_temp_<pid>_<name> beside p
create_temp_backup_path(p) ==
    Append(Parent(p), [p[Len(p)] EXCEPT !.tmp = ProcessId])

\* abort_copy that leaves the partial temp file behind
abort_copy_keeping_temp(f, bad, temp) == {f}

\* copy_file_with_interrupt_check when its poll finds the flag set: the
\* partial file is removed, the result of the removal is ignored
abort_copy(f, bad, temp) == remove_file(f, bad, temp)

\* cleanup_temp_files that also sweeps the directories beneath dir
cleanup_temp_files_deep(f, bad, dir) ==
    IF ~DirExists(f, dir) THEN f
    ELSE Restrict(f, DOMAIN f \ {q \in DOMAIN f :
                                    /\ IsPrefix(dir, q)
                                    /\ q[Len(q)].tmp # 0
                                    /\ Exists(f, q) /\ ~IsDir(f, q)
                                    /\ q \notin bad})

\* backup::cleanup_temp_files: every entry of dir whose name starts with
\* .qbak_temp_ is removed as a file, failures are ignored
cleanup_temp_files(f, bad, dir) ==
    IF ~DirExists(f, dir) THEN f
    ELSE Restrict(f, DOMAIN f \ {q \in DOMAIN f :
                                    /\ Len(q) = Len(dir) + 1
                                    /\ IsPrefix(dir, q)
                                    /\ q[Len(q)].tmp # 0
                                    /\ Exists(f, q) /\ ~IsDir(f, q)
                                    /\ q \notin bad})

\* The sources: a file, and a directory holding a file and a subdirectory
\* with a file of its own.
SrcFile == <<Name("f")>>
SrcDir == <<Name("d")>>
SrcA == Append(SrcDir, Name("a"))
SrcSub == Append(SrcDir, Name("s"))
SrcC == Append(SrcSub, Name("c"))


\* the content of a file of n chunks
Data(n) == [i \in 1..n |-> i]

SourceDisk ==
    [q \in {SrcFile, SrcDir, SrcA, SrcSub, SrcC, SrcLong, SrcBad, SrcRevoked} |->
        IF q \in {SrcDir, SrcSub, SrcBad} THEN DirNode
        ELSE IF q \in {SrcC, SrcLong, SrcRevoked} THEN FileNode(Data(1))
        ELSE FileNode(Data(MaxChunks))]

\* the sources together with the backups an earlier run made in this second
EarlierDisk ==
    [q \in DOMAIN SourceDisk \cup {generate_backup_name(SrcFile),
                                    generate_backup_name(SrcDir)} |->
        IF q \in DOMAIN SourceDisk THEN SourceDisk[q]
        ELSE IF q = generate_backup_name(SrcDir) THEN DirNode
        ELSE FileNode(Data(1))]

\* a disk whose source file is empty
EmptyFileDisk ==
    [q \in DOMAIN SourceDisk |->
        IF q = SrcFile THEN FileNode(<<>>) ELSE SourceDisk[q]]

\* a symbolic link in the source directory
SrcLink == Append(SrcDir, Name("l"))

\* disks whose source directory holds a link to a file, to a directory
LinkFileDisk == Put(SourceDisk, SrcLink, LinkNode(SrcC))
LinkDirDisk == Put(SourceDisk, SrcLink, LinkNode(SrcSub))

\* the disks a run starts on
InitDisks == {SourceDisk, EarlierDisk, EmptyFileDisk, LinkFileDisk, LinkDirDisk}

\* Config::default, the fields the walk reads
DefaultConfig ==
    [preserve_permissions |-> TRUE, follow_symlinks |-> TRUE,
     include_hidden |-> TRUE]

\* Config: the default and the values of follow_symlinks
Configs == {[DefaultConfig EXCEPT !.follow_symlinks = b] : b \in BOOLEAN}

\* Config: every value of the three fields
AllConfigs ==
    {[preserve_permissions |-> p, follow_symlinks |-> l, include_hidden |-> h] :
        p \in BOOLEAN, l \in BOOLEAN, h \in BOOLEAN}

\* is_hidden that finds no entry hidden
is_hidden_never(path) == FALSE

\* utils::is_hidden: the file name starts with '.'; a temp name
\* (.qbak_temp_...) does
is_hidden(path) ==
    Len(path) > 0 /\ (path[Len(path)].dot \/ path[Len(path)].tmp # 0)

\* Path::exists that holds of every path
target_exists_always(f, p) == TRUE

\* resolved_target.exists() in handle_symlink(_with_progress)
target_exists(f, p) == Exists(f, p)

\* utils::copy_permissions: the permissions of source, set on dest
copy_permissions(f, source, dest) ==
    Put(f, dest, [f[dest] EXCEPT !.mode = f[source].mode])

\* count_files_and_size_recursive, its file count: the regular files of dir
\* and of its subdirectories; hidden entries are skipped unless
\* include_hidden is set, symbolic links are skipped
RECURSIVE count_files_and_size_recursive(_, _, _)
count_files_and_size_recursive(f, dir, config) ==
    LET entries == {p \in {Append(dir, e) : e \in read_dir(f, dir)} :
                       config.include_hidden \/ ~is_hidden(p)}
        subdirs == {p \in entries : IsDir(f, p)}
        RECURSIVE sum(_)
        sum(S) == IF S = {} THEN 0
                  ELSE LET p == CHOOSE q \in S : TRUE
                       IN  count_files_and_size_recursive(f, p, config)
                           + sum(S \ {p})
    IN  Cardinality({p \in entries : IsFile(f, p)}) + sum(subdirs)

\* stat_len that reports at least one unit
stat_len_nonzero(f, p) == IF Len(f[p].data) = 0 THEN 1 ELSE Len(f[p].data)

\* fs::metadata(p)?.len(), which is also utils::calculate_size of a file:
\* the length of the file, in chunks
stat_len(f, p) == Len(f[p].data)

\* Path::canonicalize of an existing path: a link resolves to its target
canonicalize(f, p) == IF IsLink(f, p) THEN f[p].data ELSE p

\* fs::symlink_metadata(p).len() of a link: the length of the target path
link_len(f, p) == Len(f[p].data)

\* utils::calculate_directory_size_recursive; the result carries the error
\* and the total of the entries visited
RECURSIVE calculate_directory_size_recursive(_, _, _)
calculate_directory_size_recursive(f, dir, visited) ==
    LET canonical == canonicalize(f, dir)
        entries == {Append(canonical, e) : e \in read_dir(f, canonical)}
        RECURSIVE walk(_)
        walk(S) ==
            IF S = {} THEN [ret |-> "Ok", size |-> 0]
            ELSE LET path == CHOOSE q \in S : TRUE
                     here ==
                         IF IsFile(f, path)
                         THEN [ret |-> "Ok", size |-> stat_len(f, path)]
                         ELSE IF IsDir(f, path)
                         THEN calculate_directory_size_recursive(
                                  f, path, visited \cup {canonical})
                         ELSE [ret |-> "Ok", size |-> link_len(f, path)]
                     rest == walk(S \ {path})
                 IN  IF here.ret # "Ok" THEN here
                     ELSE IF rest.ret # "Ok" THEN rest
                     ELSE [ret |-> "Ok", size |-> here.size + rest.size]
    IN  IF canonical \in visited THEN [ret |-> "SymlinkLoop", size |-> 0]
        ELSE walk(entries)

\* utils::calculate_size; fs::metadata follows a link
calculate_size(f, path) ==
    LET real == canonicalize(f, path)
    IN  IF ~Exists(f, real) THEN [ret |-> "Io", size |-> 0]
        ELSE IF IsFile(f, real) THEN [ret |-> "Ok", size |-> stat_len(f, real)]
        ELSE IF IsDir(f, real) THEN calculate_directory_size_recursive(f, path, {})
        ELSE [ret |-> "Ok", size |-> link_len(f, real)]

\* the three backup entry points and the sources each is called on
Variants == {"file", "dir", "dir_progress"}
SourceOf(v) == IF v = "file" THEN SrcFile ELSE SrcDir
Targets(v) == {SourceOf(v), SrcLong, SrcBad, SrcMissing, SrcRevoked}

NoGuard ==
    [backup_path |-> <<>>, context |-> NoCtx, registered |-> FALSE,
     completed |-> FALSE, phase |-> "none"]

\* the locals of one copy_file_with_interrupt_check call: pos chunks written
NoCopy == [src |-> <<>>, dst |-> <<>>, temp |-> <<>>, pos |-> 0]
NewCopy(source, backup) ==
    [src |-> source, dst |-> backup, temp |-> create_temp_backup_path(backup),
     pos |-> 0]

\* one activation of copy_directory_contents: the entries read_dir has not
\* yet yielded
Frame(f, source_dir, backup_dir, perms) ==
    [src |-> source_dir, dst |-> backup_dir, todo |-> read_dir(f, source_dir),
     perms |-> perms]

\* The backup thread before a backup is called.  ret is the result of the
\* call, at the place an error was raised, raced whether a cleanup of the
\* operation's registry ran while the call was in flight; late_reads and
\* late_entries count the chunk reads and the entry dispatches that began
\* while is_interrupted() was already true (history); file_size is the
\* local of backup_file.  counter is the loop variable of resolve_collision,
\* calls the number of its calls so far and prev the result of the call
\* before the last (history).  config is the Config argument and file_count
\* the local of backup_directory_with_progress.
IdleBackup ==
    [pc |-> "idle", variant |-> "none", source |-> <<>>, final |-> <<>>,
     guard |-> NoGuard, stack |-> <<>>, entry |-> Name(""), cp |-> NoCopy,
     files_processed |-> 0, total_size |-> 0, ret |-> "none", at |-> "none",
     raced |-> FALSE, late_reads |-> 0, late_entries |-> 0, file_size |-> 0,
     counter |-> 0, calls |-> 0, prev |-> <<>>,
     config |-> DefaultConfig, file_count |-> 0]

\* one more, when is_interrupted() is true as the step begins
Late(n) == IF is_interrupted THEN n + 1 ELSE n

\* Fail that counts the failed copy as a processed file
Fail_counted(b, e, where) ==
    [b EXCEPT !.pc = "unwind", !.ret = e, !.at = where,
              !.files_processed = @ + 1]

\* the ? operator: the error leaves the function, the guard is dropped next
Fail(b, e, where) == [b EXCEPT !.pc = "unwind", !.ret = e, !.at = where]

\* the process has not exited
Running == ~cli.exited

Top == bk.stack[Len(bk.stack)]

\* backup_file, backup_directory, backup_directory_with_progress up to the
\* resolved destination name
backup_begin(v, source, config) ==
    /\ Running
    /\ bk.pc = "idle"
    /\ LET final == resolve_collision(fs, generate_backup_name(source))
           err == IF validate_source(fs, source) # "Ok"
                  THEN validate_source(fs, source)
                  ELSE IF v = "dir" /\ ~IsDir(fs, source) THEN "Validation"
                  ELSE IF generate_backup_name_result(source) # "Ok"
                  THEN generate_backup_name_result(source)
                  ELSE IF final = <<>> THEN "Validation"
                  ELSE "Ok"
       IN  bk' = IF err # "Ok"
                 THEN [bk EXCEPT !.pc = "returned", !.variant = v,
                                 !.source = source, !.config = config,
                                 !.ret = err, !.at = "begin"]
                 ELSE [bk EXCEPT !.pc = "register", !.variant = v,
                                 !.source = source, !.config = config,
                                 !.final = final]
    /\ last' = NoOp
    /\ UNCHANGED <<fs, undeletable, flagVal, regOps, global, contexts, guards, cli>>

\* the create_backup_guard call of the three entry points, and the
\* calculate_size and create_temp_backup_path calls of backup_file
backup_register ==
    /\ Running
    /\ bk.pc = "register"
    /\ CreateGuardEffect(bk.final)
    /\ bk' = [bk EXCEPT
                !.guard = BackupOperationGuard_new(bk.final, global'),
                !.file_size = IF bk.variant = "file"
                              THEN stat_len(fs, bk.source) ELSE 0,
                !.cp = IF bk.variant = "file"
                       THEN NewCopy(bk.source, bk.final) ELSE NoCopy,
                !.pc = IF bk.variant = "file" THEN "open"
                       ELSE IF bk.variant = "dir" THEN "mkdir" ELSE "scan"]
    /\ last' = NoOp
    /\ UNCHANGED <<fs, undeletable, contexts, cli>>

\* count_files_and_size in backup_directory_with_progress: the scan polls
\* the flag at every entry and changes nothing, so one observation of the
\* flag decides its result
count_files_and_size ==
    /\ Running
    /\ bk.pc = "scan"
    /\ bk' = IF is_interrupted /\ read_dir(fs, bk.source) # {}
             THEN Fail(bk, "Interrupted", "scan")
             ELSE [bk EXCEPT !.pc = "mkdir",
                             !.file_count =
                                 count_files_and_size_recursive(fs, bk.source,
                                                                bk.config)]
    /\ last' = Op("poll", bk.source, 0, is_interrupted)
    /\ UNCHANGED <<fs, undeletable, flagVal, regOps, global, contexts, guards, cli>>

\* fs::create_dir_all(&final_backup_path) and the call of the walk
backup_create_dir ==
    /\ Running
    /\ bk.pc = "mkdir"
    /\ fs' = create_dir_all(fs, bk.final)
    /\ bk' = [bk EXCEPT !.pc = "walk",
                        !.stack = <<Frame(fs, bk.source, bk.final,
                                         bk.variant = "dir")>>]
    /\ last' = NoOp
    /\ UNCHANGED <<undeletable, flagVal, regOps, global, contexts, guards, cli>>

\* copy_directory_contents(_with_progress): the head of the loop with an
\* entry left: the poll, then the entry read_dir yields (in any order)
copy_directory_contents_poll ==
    /\ Running
    /\ bk.pc = "walk"
    /\ Top.todo # {}
    /\ IF is_interrupted
       THEN bk' = Fail(bk, "Interrupted", "entry")
       ELSE \E e \in Top.todo :
               bk' = [bk EXCEPT !.pc = "entry", !.entry = e,
                                !.stack[Len(bk.stack)].todo = @ \ {e}]
    /\ last' = Op("poll", Top.src, 0, is_interrupted)
    /\ UNCHANGED <<fs, undeletable, flagVal, regOps, global, contexts, guards, cli>>

\* copy_directory_contents(_with_progress): the body of the loop: a file is
\* handed to copy_file_to_backup, a directory is created and walked, a
\* symbolic link goes to handle_symlink(_with_progress): with
\* follow_symlinks its target is copied as a file or walked as a directory
\* (a dangling link is passed over), without it the link is re-created
copy_directory_contents_entry ==
    /\ Running
    /\ bk.pc = "entry"
    /\ LET source_path == Append(Top.src, bk.entry)
           backup_path == Append(Top.dst, bk.entry)
           resolved_target == fs[source_path].data
       IN  IF ~bk.config.include_hidden /\ is_hidden(source_path)
           THEN /\ fs' = fs
                /\ bk' = [bk EXCEPT !.pc = "walk", !.late_entries = Late(@)]
           ELSE IF IsFile(fs, source_path)
           THEN /\ bk' = [bk EXCEPT !.pc = "open",
                                    !.late_entries = Late(@),
                                    !.cp = NewCopy(source_path, backup_path)]
                /\ fs' = fs
           ELSE IF IsDir(fs, source_path)
           THEN /\ fs' = create_dir_all(fs, backup_path)
                /\ bk' = [bk EXCEPT !.pc = "walk",
                                    !.late_entries = Late(@),
                                    !.stack = Append(@, Frame(fs, source_path,
                                                              backup_path,
                                                              bk.variant = "dir"))]
           ELSE IF ~IsLink(fs, source_path)
           THEN /\ fs' = fs
                /\ bk' = Fail([bk EXCEPT !.late_entries = Late(@)], "Io", "entry")
           ELSE IF ~bk.config.follow_symlinks
           THEN IF DirExists(fs, Parent(backup_path)) /\ ~Exists(fs, backup_path)
                THEN /\ fs' = Put(fs, backup_path, LinkNode(resolved_target))
                     /\ bk' = [bk EXCEPT !.pc = "walk", !.late_entries = Late(@)]
                ELSE /\ fs' = fs
                     /\ bk' = Fail([bk EXCEPT !.late_entries = Late(@)],
                                   "Io", "symlink")
           ELSE IF ~target_exists(fs, resolved_target)
           THEN /\ fs' = fs
                /\ bk' = [bk EXCEPT !.pc = "walk", !.late_entries = Late(@)]
           ELSE IF IsFile(fs, resolved_target)
           THEN /\ bk' = [bk EXCEPT !.pc = "open",
                                    !.late_entries = Late(@),
                                    !.cp = NewCopy(resolved_target, backup_path)]
                /\ fs' = fs
           ELSE IF IsDir(fs, resolved_target)
           THEN /\ fs' = create_dir_all(fs, backup_path)
                /\ bk' = [bk EXCEPT !.pc = "walk",
                                    !.late_entries = Late(@),
                                    !.stack = Append(@, Frame(fs, resolved_target,
                                                              backup_path, FALSE))]
           ELSE /\ fs' = fs
                /\ bk' = Fail([bk EXCEPT !.late_entries = Late(@)],
                              "Io", "symlink")
    /\ last' = NoOp
    /\ UNCHANGED <<undeletable, flagVal, regOps, global, contexts, guards, cli>>

\* copy_directory_contents(_with_progress): read_dir is exhausted, Ok(())
\* goes to the caller: the walk of the parent, or the entry point.  In
\* copy_directory_contents and in backup_directory the caller then copies
\* the permissions of the directory, if preserve_permissions is set
copy_directory_contents_return ==
    /\ Running
    /\ bk.pc = "walk"
    /\ Top.todo = {}
    /\ IF Top.perms /\ bk.config.preserve_permissions
       THEN IF Exists(fs, Top.dst)
            THEN /\ fs' = copy_permissions(fs, Top.src, Top.dst)
                 /\ bk' = [bk EXCEPT
                             !.stack = SubSeq(@, 1, Len(@) - 1),
                             !.pc = IF Len(bk.stack) = 1 THEN "complete"
                                    ELSE "walk"]
            ELSE /\ fs' = fs
                 /\ bk' = Fail(bk, "Io", "permissions")
       ELSE /\ fs' = fs
            /\ bk' = [bk EXCEPT
                        !.stack = SubSeq(@, 1, Len(@) - 1),
                        !.pc = IF Len(bk.stack) = 1 THEN "complete" ELSE "walk"]
    /\ last' = NoOp
    /\ UNCHANGED <<undeletable, flagVal, regOps, global, contexts, guards, cli>>

\* copy_file_with_interrupt_check: File::open(source), File::create(dest)
copy_open ==
    /\ Running
    /\ bk.pc = "open"
    /\ IF DirExists(fs, Parent(bk.cp.temp)) /\ ~IsDir(fs, bk.cp.temp)
       THEN /\ fs' = Put(fs, bk.cp.temp, FileNode(<<>>))
            /\ bk' = [bk EXCEPT !.pc = "poll"]
       ELSE /\ fs' = fs
            /\ bk' = Fail(bk, "Io", "open")
    /\ last' = NoOp
    /\ UNCHANGED <<undeletable, flagVal, regOps, global, contexts, guards, cli>>

\* copy_file_with_interrupt_check: the poll before each read
copy_poll ==
    /\ Running
    /\ bk.pc = "poll"
    /\ IF is_interrupted
       THEN /\ fs' \in abort_copy(fs, undeletable, bk.cp.temp)
            /\ bk' = Fail(bk, "Interrupted", "chunk")
       ELSE /\ fs' = fs
            /\ bk' = [bk EXCEPT !.pc = "read"]
    /\ last' = Op("poll", bk.cp.src, 0, is_interrupted)
    /\ UNCHANGED <<undeletable, flagVal, regOps, global, contexts, guards, cli>>

\* copy_chunk that goes on to the next read without a poll
copy_chunk_unpolled ==
    /\ Running
    /\ bk.pc = "read"
    /\ IF bk.cp.pos = Len(fs[bk.cp.src].data)
       THEN /\ fs' = fs
            /\ bk' = [bk EXCEPT !.pc = "rename", !.late_reads = Late(@)]
       ELSE /\ fs' = IF IsFile(fs, bk.cp.temp)
                     THEN Put(fs, bk.cp.temp,
                              FileNode(Append(fs[bk.cp.temp].data,
                                              fs[bk.cp.src].data[bk.cp.pos + 1])))
                     ELSE fs
            /\ bk' = [bk EXCEPT !.pc = "read", !.cp.pos = @ + 1,
                                !.late_reads = Late(@)]
    /\ last' = NoOp
    /\ UNCHANGED <<undeletable, flagVal, regOps, global, contexts, guards, cli>>

\* copy_file_with_interrupt_check: read a chunk and write it through the
\* open handle (to no path when the temp file was unlinked meanwhile); at
\* the end of the source flush and return Ok(())
copy_chunk ==
    /\ Running
    /\ bk.pc = "read"
    /\ IF bk.cp.pos = Len(fs[bk.cp.src].data)
       THEN /\ fs' = fs
            /\ bk' = [bk EXCEPT !.pc = "rename", !.late_reads = Late(@)]
       ELSE /\ fs' = IF IsFile(fs, bk.cp.temp)
                     THEN Put(fs, bk.cp.temp,
                              FileNode(Append(fs[bk.cp.temp].data,
                                              fs[bk.cp.src].data[bk.cp.pos + 1])))
                     ELSE fs
            /\ bk' = [bk EXCEPT !.pc = "poll", !.cp.pos = @ + 1,
                                !.late_reads = Late(@)]
    /\ last' = NoOp
    /\ UNCHANGED <<undeletable, flagVal, regOps, global, contexts, guards, cli>>

\* backup_file and copy_file_to_backup: copy_permissions(source, &temp_path)
\* if preserve_permissions is set, fs::rename(&temp_path, backup) and the
\* statistics
copy_rename ==
    /\ Running
    /\ bk.pc = "rename"
    /\ IF /\ IsFile(fs, bk.cp.temp)
          /\ DirExists(fs, Parent(bk.cp.dst))
          /\ ~IsDir(fs, bk.cp.dst)
       THEN /\ fs' = Put(Restrict(fs, DOMAIN fs \ {bk.cp.temp}), bk.cp.dst,
                         IF bk.config.preserve_permissions
                         THEN copy_permissions(fs, bk.cp.src, bk.cp.temp)[bk.cp.temp]
                         ELSE fs[bk.cp.temp])
            /\ bk' = [bk EXCEPT
                        !.files_processed = IF bk.variant = "file" THEN 1
                                            ELSE @ + 1,
                        !.total_size = IF bk.variant = "file" THEN bk.file_size
                                       ELSE @ + stat_len(fs, bk.cp.src),
                        !.pc = IF bk.variant = "file" THEN "complete" ELSE "walk"]
       ELSE /\ fs' = fs
            /\ bk' = Fail(bk, "Io", "rename")
    /\ last' = NoOp
    /\ UNCHANGED <<undeletable, flagVal, regOps, global, contexts, guards, cli>>

\* _operation_guard.complete() and Ok(result) of the three entry points
backup_complete ==
    /\ Running
    /\ bk.pc = "complete"
    /\ CompleteEffect(bk.guard)
    /\ bk' = [bk EXCEPT !.pc = "returned", !.ret = "Ok"]
    /\ last' = Op("complete", bk.guard.backup_path, bk.guard.context.reg,
                  ctx_is_interrupted(bk.guard.context))
    /\ UNCHANGED <<undeletable, flagVal, global, contexts, cli>>

\* an error leaves the entry point: _operation_guard goes out of scope
backup_unwind ==
    /\ Running
    /\ bk.pc = "unwind"
    /\ DropEffect(bk.guard)
    /\ bk' = [bk EXCEPT !.pc = "returned"]
    /\ last' = Op("drop", bk.guard.backup_path, bk.guard.context.reg,
                  ctx_is_interrupted(bk.guard.context))
    /\ UNCHANGED <<undeletable, flagVal, global, contexts, cli>>

\* the steps of the backup thread
BackupStep ==
    \/ \E v \in Variants : \E source \in Targets(v) : \E config \in Configs :
          backup_begin(v, source, config)
    \/ backup_register
    \/ count_files_and_size
    \/ backup_create_dir
    \/ copy_directory_contents_poll
    \/ copy_directory_contents_entry
    \/ copy_directory_contents_return
    \/ copy_open
    \/ copy_poll
    \/ copy_chunk
    \/ copy_rename
    \/ backup_complete
    \/ backup_unwind

-----------------------------------------------------------------------------
(* Spec: a library client runs one backup while its session context, when  *)
(* it installed one, can be interrupted and cleaned up from another thread. *)

\* the process of a library client: no handler of main.rs
NoCli == [interrupted |-> 0, handler |-> "absent", exited |-> FALSE,
          exit_code |-> 0, by |-> "none", targets |-> <<>>, next |-> 1,
          success_count |-> 0, error_count |-> 0,
          config |-> DefaultConfig, dry_run |-> FALSE]

\* the contexts a cleanup can be called on: the client's and the global one
Sessions == contexts \cup ({global} \ {NoCtx})

Init ==
    /\ fs \in InitDisks
    /\ undeletable = {}
    /\ flagVal = <<FALSE>>
    /\ regOps = <<{}>>
    /\ global \in {NoCtx, Ctx(1, 1)}
    /\ contexts = {Ctx(1, 1)}
    /\ guards = EmptyBag
    /\ last = NoOp
    /\ bk = IdleBackup
    /\ cli = NoCli

Next ==
    \/ BackupStep
    \/ \E c \in contexts : set_interrupted(c, TRUE)
    \/ \E c \in Sessions : cleanup_active_operations_with_mode(c)

Spec == Init /\ [][Next]_vars

-----------------------------------------------------------------------------
(* SpecWalk: the two directory backups under every Config, on a source      *)
(* directory that holds hidden entries, entries with permissions of their  *)
(* own and a symbolic link; the session can be interrupted.                *)

\* a hidden file, and a hidden directory with a file of an ordinary name
SrcHidden == Append(SrcDir, HiddenName("h"))
SrcHiddenDir == Append(SrcDir, HiddenName("e"))
SrcHiddenDirFile == Append(SrcHiddenDir, Name("x"))

\* the source directory whose link resolves to target
WalkDisk(target) ==
    [q \in {SrcDir, SrcA, SrcSub, SrcC, SrcHidden, SrcHiddenDir,
            SrcHiddenDirFile, SrcLink} |->
        IF q \in {SrcDir, SrcSub} THEN ReadOnly(DirNode)
        ELSE IF q = SrcHiddenDir THEN DirNode
        ELSE IF q = SrcLink THEN LinkNode(target)
        ELSE IF q = SrcA THEN ReadOnly(FileNode(Data(1)))
        ELSE FileNode(Data(1))]

\* the link points to a file, to a directory, to nothing
WalkDisks == {WalkDisk(target) : target \in {SrcC, SrcSub, SrcMissing}}

InitWalk ==
    /\ fs \in WalkDisks
    /\ undeletable = {}
    /\ flagVal = <<FALSE>>
    /\ regOps = <<{}>>
    /\ global = Ctx(1, 1)
    /\ contexts = {Ctx(1, 1)}
    /\ guards = EmptyBag
    /\ last = NoOp
    /\ bk = IdleBackup
    /\ cli = NoCli

NextWalk ==
    \/ \E v \in {"dir", "dir_progress"} : \E config \in AllConfigs :
          backup_begin(v, SrcDir, config)
    \/ backup_register
    \/ count_files_and_size
    \/ backup_create_dir
    \/ copy_directory_contents_poll
    \/ copy_directory_contents_entry
    \/ copy_directory_contents_return
    \/ copy_open
    \/ copy_poll
    \/ copy_chunk
    \/ copy_rename
    \/ backup_complete
    \/ backup_unwind
    \/ \E c \in contexts : set_interrupted(c, TRUE)

SpecWalk == InitWalk /\ [][NextWalk]_vars

-----------------------------------------------------------------------------
(* SpecFaults: the three backups on a disk where the operating system may  *)
(* fail a read, a write, a permission change or a rename of the copy; the  *)
(* session can be interrupted.                                             *)

\* copy_file_with_interrupt_check: source_file.read or dest_file.write_all
\* returns an error, which `?` hands to the caller
copy_chunk_io_error ==
    /\ Running
    /\ bk.pc = "read"
    /\ bk' = Fail(bk, "Io", "chunk")
    /\ last' = NoOp
    /\ UNCHANGED <<fs, undeletable, flagVal, regOps, global, contexts, guards, cli>>

\* backup_file and copy_file_to_backup: copy_permissions or fs::rename
\* returns an error, the latter after the permissions were set
copy_rename_io_error ==
    /\ Running
    /\ bk.pc = "rename"
    /\ fs' \in {fs} \cup
              (IF IsFile(fs, bk.cp.temp) /\ bk.config.preserve_permissions
               THEN {copy_permissions(fs, bk.cp.src, bk.cp.temp)} ELSE {})
    /\ bk' = Fail(bk, "Io", "rename")
    /\ last' = NoOp
    /\ UNCHANGED <<undeletable, flagVal, regOps, global, contexts, guards, cli>>

InitFaults ==
    /\ fs \in {SourceDisk, EmptyFileDisk, LinkFileDisk}
    /\ undeletable = {}
    /\ flagVal = <<FALSE>>
    /\ regOps = <<{}>>
    /\ global = Ctx(1, 1)
    /\ contexts = {Ctx(1, 1)}
    /\ guards = EmptyBag
    /\ last = NoOp
    /\ bk = IdleBackup
    /\ cli = NoCli

NextFaults ==
    \/ \E v \in Variants : \E config \in Configs :
          backup_begin(v, SourceOf(v), config)
    \/ backup_register
    \/ count_files_and_size
    \/ backup_create_dir
    \/ copy_directory_contents_poll
    \/ copy_directory_contents_entry
    \/ copy_directory_contents_return
    \/ copy_open
    \/ copy_poll
    \/ copy_chunk
    \/ copy_chunk_io_error
    \/ copy_rename
    \/ copy_rename_io_error
    \/ backup_complete
    \/ backup_unwind
    \/ \E c \in contexts : set_interrupted(c, TRUE)

SpecFaults == InitFaults /\ [][NextFaults]_vars

-----------------------------------------------------------------------------
(* SpecCycle: the walk of a source directory in which a symbolic link      *)
(* leads back to an ancestor, with the interrupt flag never set.  Neither  *)
(* walker keeps a set of visited directories: under follow_symlinks the    *)
(* recursion through the link ends only where the system ends it.          *)

\* The number of components of a backup path beyond which the system ends
\* the recursion (PATH_MAX of the platform, or the stack of the thread).
MaxDepth == 3

\* a link in the subdirectory of the source
SrcSubUp == Append(SrcSub, Name("u"))

\* the link d/l leads to d itself, the link d/s/u leads up to d, and, for
\* comparison, the link d/l leads down to d/s
CycleDisks ==
    {Put(SourceDisk, SrcLink, LinkNode(SrcDir)),
     Put(SourceDisk, SrcSubUp, LinkNode(SrcDir)),
     LinkDirDisk}

\* the entry at hand is a directory or, under follow_symlinks, a link that
\* resolves to one: copy_directory_contents is called again for it
EntryRecurses ==
    LET source_path == Append(Top.src, bk.entry)
    IN  \/ IsDir(fs, source_path)
        \/ /\ IsLink(fs, source_path)
           /\ bk.config.follow_symlinks
           /\ IsDir(fs, fs[source_path].data)

\* the backup path of the entry at hand is deeper than the system takes
TooDeep == bk.pc = "entry" /\ Len(Append(Top.dst, bk.entry)) > MaxDepth

\* copy_directory_contents(_with_progress) and handle_symlink at an entry
\* whose backup path is too deep: create_dir_all, File::create or symlink
\* is refused by the system and the error is returned; or, when the entry
\* calls for another activation, the stack of the thread is exhausted
\* first and the process is aborted: no activation ever returns
copy_directory_contents_entry_too_deep ==
    /\ Running
    /\ TooDeep
    /\ \/ /\ bk' = Fail(bk, "Io", "depth")
          /\ cli' = cli
       \/ /\ EntryRecurses
          /\ bk' = [bk EXCEPT !.pc = "aborted"]
          /\ cli' = [cli EXCEPT !.exited = TRUE]
    /\ last' = NoOp
    /\ UNCHANGED <<fs, undeletable, flagVal, regOps, global, contexts, guards>>

InitCycle ==
    /\ fs \in CycleDisks
    /\ undeletable = {}
    /\ flagVal = <<FALSE>>
    /\ regOps = <<{}>>
    /\ global = Ctx(1, 1)
    /\ contexts = {Ctx(1, 1)}
    /\ guards = EmptyBag
    /\ last = NoOp
    /\ bk = IdleBackup
    /\ cli = NoCli

NextCycle ==
    \/ \E v \in {"dir", "dir_progress"} : \E config \in Configs :
          backup_begin(v, SrcDir, config)
    \/ backup_register
    \/ count_files_and_size
    \/ backup_create_dir
    \/ copy_directory_contents_poll
    \/ (~TooDeep /\ copy_directory_contents_entry)
    \/ copy_directory_contents_entry_too_deep
    \/ copy_directory_contents_return
    \/ copy_open
    \/ copy_poll
    \/ copy_chunk
    \/ copy_rename
    \/ backup_complete
    \/ backup_unwind

\* the backup thread is scheduled as long as it has a step to take
SpecCycle == InitCycle /\ [][NextCycle]_vars /\ WF_vars(NextCycle)

-----------------------------------------------------------------------------
(* SpecNaming: resolve_collision run statement by statement, twice, on      *)
(* directories that hold the candidate and numbered variants of it.         *)

\* the largest counter of the small sets of taken variants
MaxTaken == 3

\* the candidate: the backup name generated for the file
Candidate == generate_backup_name(SrcFile)

\* the variant of the candidate with counter k, the candidate itself for 0
Variant(k) == IF k = 0 THEN Candidate ELSE Numbered(Candidate, k)

\* which of the candidate (0) and its variants exist: every small set, all
\* of them, all but the last variant, all but an inner variant, and all
\* variants without the candidate
TakenSets ==
    (SUBSET (0..MaxTaken))
        \cup {0..MaxCollision, 0..(MaxCollision - 1),
               (0..MaxCollision) \ {MaxTaken + 1}, 1..MaxCollision}

NamingDisks == {[q \in {Variant(k) : k \in T} |-> FileNode(<<>>)] : T \in TakenSets}

\* resolve_collision up to the loop: the candidate is returned when it does
\* not exist
resolve_collision_begin ==
    /\ bk.pc \in {"idle", "resolved"}
    /\ bk.calls < 2
    /\ bk' = IF ~Exists(fs, Candidate)
             THEN [bk EXCEPT !.pc = "resolved", !.source = Candidate,
                             !.final = Candidate, !.ret = "Ok",
                             !.calls = @ + 1, !.prev = bk.final]
             ELSE [bk EXCEPT !.pc = "resolving", !.source = Candidate,
                             !.final = <<>>, !.ret = "none", !.counter = 1,
                             !.calls = @ + 1, !.prev = bk.final]
    /\ UNCHANGED <<fs, undeletable, flagVal, regOps, global, contexts, guards,
                   last, cli>>

\* one iteration of the for loop of resolve_collision, or its end
resolve_collision_try ==
    /\ bk.pc = "resolving"
    /\ bk' = IF bk.counter \notin collision_counters
             THEN [bk EXCEPT !.pc = "resolved", !.ret = "Validation"]
             ELSE IF ~Exists(fs, Numbered(bk.source, bk.counter))
             THEN [bk EXCEPT !.pc = "resolved", !.ret = "Ok",
                             !.final = Numbered(bk.source, bk.counter)]
             ELSE [bk EXCEPT !.counter = @ + 1]
    /\ UNCHANGED <<fs, undeletable, flagVal, regOps, global, contexts, guards,
                   last, cli>>

InitNaming ==
    /\ fs \in NamingDisks
    /\ undeletable = {}
    /\ flagVal = <<>>
    /\ regOps = <<>>
    /\ global = NoCtx
    /\ contexts = {}
    /\ guards = EmptyBag
    /\ last = NoOp
    /\ bk = IdleBackup
    /\ cli = NoCli

NextNaming == resolve_collision_begin \/ resolve_collision_try

SpecNaming == InitNaming /\ [][NextNaming]_vars

-----------------------------------------------------------------------------
(* SpecCli: the qbak binary on its targets, with its Ctrl-C handler.        *)

\* the longest command line
MaxTargets == 2

\* the targets named on a command line, and the command lines
CliTargets == {SrcFile, SrcDir, SrcMissing, SrcRevoked, SrcLong}
TargetLists == UNION {[1..n -> CliTargets] : n \in 1..MaxTargets}

\* the working directory the targets are named in
Cwd == <<>>

\* QbakError::exit_code, and 0 for a run without errors
exit_code(ret) ==
    IF ret = "Ok" THEN 0
    ELSE IF ret = "Interrupted" THEN 130
    ELSE IF ret = "Validation" THEN 2
    ELSE 1

\* is_recoverable that holds of every error
is_recoverable_any(ret) == ret # "Ok"

\* QbakError::is_recoverable
is_recoverable(ret) == ret \in {"SourceNotFound", "PermissionDenied", "Validation"}

\* main::setup_signal_handlers: a fresh flag is captured by the handler;
\* nothing passes it to the signal module
setup_signal_handlers ==
    /\ Running
    /\ cli.handler = "absent"
    /\ bk.pc = "idle"
    /\ flagVal' = Append(flagVal, FALSE)
    /\ cli' = [cli EXCEPT !.interrupted = Len(flagVal) + 1, !.handler = "armed"]
    /\ last' = NoOp
    /\ UNCHANGED <<fs, undeletable, regOps, global, contexts, guards, bk>>

\* a process_target that never takes the dry-run branch
is_dry_run_never == FALSE

\* process_target: `if dry_run`
is_dry_run == cli.dry_run

\* process_target in a dry run: the name is generated and resolved, the
\* target is scanned (a directory) or measured (anything else), the line
\* "Would create backup" is printed and Ok(()) returned; final and
\* file_count keep what was printed
process_target_dry_run ==
    /\ Running
    /\ cli.handler # "absent"
    /\ cli.next <= Len(cli.targets)
    /\ bk.pc = "idle"
    /\ is_dry_run
    /\ LET target == cli.targets[cli.next]
           final_path == resolve_collision(fs, generate_backup_name(target))
           err == IF generate_backup_name_result(target) # "Ok"
                  THEN generate_backup_name_result(target)
                  ELSE IF final_path = <<>> THEN "Validation"
                  ELSE IF IsDir(fs, target)
                  THEN IF is_interrupted /\ read_dir(fs, target) # {}
                       THEN "Interrupted" ELSE "Ok"
                  ELSE IF target = SrcRevoked THEN "Io"
                  ELSE calculate_size(fs, target).ret
       IN  bk' = [bk EXCEPT
                    !.pc = "returned", !.variant = "dry_run",
                    !.source = target, !.config = cli.config,
                    !.ret = err, !.at = "begin",
                    !.final = IF err = "Ok" THEN final_path ELSE <<>>,
                    !.file_count =
                        IF err = "Ok" /\ IsDir(fs, target)
                        THEN count_files_and_size_recursive(fs, target, cli.config)
                        ELSE 0]
    /\ last' = NoOp
    /\ UNCHANGED <<fs, undeletable, flagVal, regOps, global, contexts, guards, cli>>

\* process_target outside a dry run: backup_directory_with_progress for a
\* directory, backup_file for anything else
process_target ==
    /\ cli.handler # "absent"
    /\ cli.next <= Len(cli.targets)
    /\ ~is_dry_run
    /\ backup_begin(IF IsDir(fs, cli.targets[cli.next]) THEN "dir_progress" ELSE "file",
                    cli.targets[cli.next], cli.config)

\* run, the match on the result of a target: success and a recoverable
\* error are counted and the loop goes on to the next target
run_continue ==
    /\ Running
    /\ bk.pc = "returned"
    /\ bk.ret = "Ok" \/ is_recoverable(bk.ret)
    /\ cli' = [cli EXCEPT !.next = @ + 1,
                          !.success_count = IF bk.ret = "Ok" THEN @ + 1 ELSE @,
                          !.error_count = IF bk.ret = "Ok" THEN @ ELSE @ + 1]
    /\ bk' = IdleBackup
    /\ last' = NoOp
    /\ UNCHANGED <<fs, undeletable, flagVal, regOps, global, contexts, guards>>

\* the handler, on its own thread: interrupted_clone.store(true)
handler_store ==
    /\ Running
    /\ cli.handler = "armed"
    /\ flagVal' = [flagVal EXCEPT ![cli.interrupted] = TRUE]
    /\ cli' = [cli EXCEPT !.handler = "stored"]
    /\ last' = NoOp
    /\ UNCHANGED <<fs, undeletable, regOps, global, contexts, guards, bk>>

\* the handler: cleanup_temp_files(&current_dir)
handler_cleanup_temp_files ==
    /\ Running
    /\ cli.handler = "stored"
    /\ fs' = cleanup_temp_files(fs, undeletable, Cwd)
    /\ cli' = [cli EXCEPT !.handler = "swept"]
    /\ last' = NoOp
    /\ UNCHANGED <<undeletable, flagVal, regOps, global, contexts, guards, bk>>

\* the handler: process::exit(130)
handler_exit ==
    /\ Running
    /\ cli.handler = "swept"
    /\ cli' = [cli EXCEPT !.exited = TRUE, !.exit_code = 130, !.by = "handler"]
    /\ last' = NoOp
    /\ UNCHANGED <<fs, undeletable, flagVal, regOps, global, contexts, guards, bk>>

\* run, the match on the result of a target: any other error is returned
\* at once and main exits with its code
run_abort ==
    /\ Running
    /\ bk.pc = "returned"
    /\ ~(bk.ret = "Ok" \/ is_recoverable(bk.ret))
    /\ cli' = [cli EXCEPT !.error_count = @ + 1, !.exited = TRUE,
                          !.exit_code = exit_code(bk.ret), !.by = "main"]
    /\ last' = NoOp
    /\ UNCHANGED <<fs, undeletable, flagVal, regOps, global, contexts, guards, bk>>

\* run and main after the last target: exit with 1 when a target failed,
\* with 0 otherwise
main_exit ==
    /\ Running
    /\ cli.handler # "absent"
    /\ bk.pc = "idle"
    /\ cli.next > Len(cli.targets)
    /\ cli' = [cli EXCEPT !.exited = TRUE,
                          !.exit_code = IF cli.error_count > 0 THEN 1 ELSE 0,
                          !.by = "main"]
    /\ last' = NoOp
    /\ UNCHANGED <<fs, undeletable, flagVal, regOps, global, contexts, guards, bk>>

InitCli ==
    /\ fs \in InitDisks
    /\ undeletable = {}
    /\ flagVal = <<>>
    /\ regOps = <<>>
    /\ global = NoCtx
    /\ contexts = {}
    /\ guards = EmptyBag
    /\ last = NoOp
    /\ bk = IdleBackup
    /\ \E ts \in TargetLists : \E config \in Configs : \E dry_run \in BOOLEAN :
          cli = [NoCli EXCEPT !.targets = ts, !.config = config,
                              !.dry_run = dry_run]

NextCli ==
    \/ setup_signal_handlers
    \/ process_target
    \/ process_target_dry_run
    \/ run_continue
    \/ run_abort
    \/ backup_register
    \/ count_files_and_size
    \/ backup_create_dir
    \/ copy_directory_contents_poll
    \/ copy_directory_contents_entry
    \/ copy_directory_contents_return
    \/ copy_open
    \/ copy_poll
    \/ copy_chunk
    \/ copy_rename
    \/ backup_complete
    \/ backup_unwind
    \/ handler_store
    \/ handler_cleanup_temp_files
    \/ handler_exit
    \/ main_exit

SpecCli == InitCli /\ [][NextCli]_vars

-----------------------------------------------------------------------------
(* SpecRegistry: contexts, their registries and guards exercised by         *)
(* arbitrary client code, as the unit tests of signal.rs do.               *)

\* two backup destinations a client registers: a directory and a file
RegDir == <<BakName("d")>>
RegFile == <<BakName("f")>>
RegPaths == {RegDir, RegFile}
Partial == Append(RegDir, Name("partial"))

\* what the client wrote at the destinations before or while registered
RegistryDisks ==
    {Restrict([q \in {RegDir, Partial, RegFile} |->
                 IF q = RegDir THEN DirNode ELSE FileNode(<<1>>)], S) :
       S \in {{}, {RegDir, Partial, RegFile}}}

\* no backup entry point is called in these sessions: of the backup thread
\* only what cleanup looks at is kept
NoBackup == [pc |-> "idle", raced |-> FALSE, guard |-> NoGuard]

\* nor does the binary run: the process has not exited
NoProcess == [exited |-> FALSE]

InitRegistryCommon ==
    /\ fs \in RegistryDisks
    /\ flagVal = <<FALSE>>
    /\ regOps = <<{}>>
    /\ global = NoCtx
    /\ contexts = {Ctx(1, 1)}
    /\ guards = EmptyBag
    /\ last = NoOp
    /\ bk = NoBackup
    /\ cli = NoProcess

InitRegistry == InitRegistryCommon /\ undeletable = {}

\* the operating system refuses to remove some of what is on the disk
InitRegistryFaults ==
    /\ InitRegistryCommon
    /\ undeletable \in SUBSET ({Partial, RegFile} \cap DOMAIN fs)

NextRegistry ==
    \/ BackupContext_new
    \/ \E c \in contexts, b \in BOOLEAN : set_interrupted(c, b)
    \/ \E c \in contexts, p \in RegPaths : register_operation(c, p)
    \/ \E g \in BagToSet(guards) : complete(g)
    \/ \E g \in BagToSet(guards) : drop(g)
    \/ \E c \in contexts : cleanup_active_operations_with_mode(c)

SpecRegistry == InitRegistry /\ [][NextRegistry]_vars

SpecRegistryFaults == InitRegistryFaults /\ [][NextRegistry]_vars

-----------------------------------------------------------------------------
(* SpecConcurrent: cleanup_active_operations_with_mode statement by         *)
(* statement on one thread, while client code on other threads registers,  *)
(* completes and drops guards on the same contexts.                        *)

\* the thread that runs cleanup: context is self, active_ops the local
\* snapshot of cleanup_active_operations_with_mode
NoCleaner == [exited |-> FALSE, pc |-> "idle", context |-> NoCtx, active_ops |-> {}]

\* cleanup_active_operations_with_mode: let active_ops = self.get_active_operations()
cleanup_snapshot(c) ==
    /\ cli.pc = "idle"
    /\ cli' = [cli EXCEPT !.pc = "loop", !.context = c,
                          !.active_ops = ctx_get_active_operations(c)]
    /\ last' = NoOp
    /\ UNCHANGED <<fs, undeletable, flagVal, regOps, global, contexts, guards, bk>>

\* cleanup_active_operations_with_mode: the loop over active_ops
cleanup_delete ==
    /\ cli.pc = "loop"
    /\ fs' \in cleanup_loop(fs, undeletable, cli.active_ops)
    /\ cli' = [cli EXCEPT !.pc = "clear"]
    /\ last' = NoOp
    /\ UNCHANGED <<undeletable, flagVal, regOps, global, contexts, guards, bk>>

\* cleanup_active_operations_with_mode: operations.clear() under the lock,
\* and the return
cleanup_clear ==
    /\ cli.pc = "clear"
    /\ regOps' = [regOps EXCEPT ![cli.context.reg] = {}]
    /\ guards' = [g \in {h \in BagToSet(guards) :
                            ~(h.phase = "leaked" /\ h.context.reg = cli.context.reg)} |->
                     guards[g]]
    /\ cli' = NoCleaner
    /\ last' = [Op("cleanup", <<>>, cli.context.reg, FALSE) EXCEPT
                   !.paths = cli.active_ops]
    /\ UNCHANGED <<fs, undeletable, flagVal, global, contexts, bk>>

InitConcurrent ==
    /\ fs \in RegistryDisks
    /\ undeletable = {}
    /\ flagVal = <<FALSE>>
    /\ regOps = <<{}>>
    /\ global = NoCtx
    /\ contexts = {Ctx(1, 1)}
    /\ guards = EmptyBag
    /\ last = NoOp
    /\ bk = NoBackup
    /\ cli = NoCleaner

NextConcurrent ==
    \/ \E c \in contexts, b \in BOOLEAN : set_interrupted(c, b)
    \/ \E c \in contexts, p \in RegPaths : register_operation(c, p)
    \/ \E g \in BagToSet(guards) : complete(g)
    \/ \E g \in BagToSet(guards) : drop(g)
    \/ \E c \in contexts : cleanup_snapshot(c)
    \/ cleanup_delete
    \/ cleanup_clear

SpecConcurrent == InitConcurrent /\ [][NextConcurrent]_vars

-----------------------------------------------------------------------------
(* SpecKeep: the sessions of SpecRegistry, with a record of the backups    *)
(* that were finished: what becomes of them under later operations.        *)

\* the destinations a client registers: RegDir and a destination inside it
KeepPaths == {RegDir, Partial}

\* nothing finished yet.  completed: the paths that were on disk when
\* complete() was called on their guard and were not registered since;
\* exclusive: those of them that no other registry held, and no registry
\* held an ancestor of, at that call, with neither them nor an ancestor
\* registered since.
NoHistory == [pc |-> "idle", raced |-> FALSE, guard |-> NoGuard,
              completed |-> {}, exclusive |-> {}]

\* at the call of complete() on g, the path of g is registered nowhere but
\* in g's registry, and no ancestor of it is registered anywhere
Unshared(g) ==
    \A r \in DOMAIN regOps : \A q \in regOps[r] :
       IsPrefix(q, g.backup_path) => (r = g.context.reg /\ q = g.backup_path)

\* BackupContext::register_operation, recorded
register_operation_recorded(c, p) ==
    /\ BagCardinality(guards) < MaxGuards
    /\ RegisterEffect(c, p)
    /\ last' = NoOp
    /\ bk' = [bk EXCEPT !.completed = @ \ {p},
                        !.exclusive = {q \in @ : ~IsPrefix(p, q)}]
    /\ UNCHANGED <<fs, undeletable, flagVal, global, contexts, cli>>

\* BackupOperationGuard::complete, recorded
complete_recorded(g) ==
    /\ g.phase = "live"
    /\ CompleteEffect(g)
    /\ last' = Op("complete", g.backup_path, g.context.reg,
                  ctx_is_interrupted(g.context))
    /\ bk' = [bk EXCEPT
                !.completed = IF Exists(fs, g.backup_path)
                              THEN @ \cup {g.backup_path} ELSE @,
                !.exclusive = IF Exists(fs, g.backup_path) /\ Unshared(g)
                              THEN @ \cup {g.backup_path} ELSE @]
    /\ UNCHANGED <<undeletable, flagVal, global, contexts, cli>>

InitKeep ==
    /\ fs \in RegistryDisks
    /\ undeletable = {}
    /\ flagVal = <<FALSE>>
    /\ regOps = <<{}>>
    /\ global = NoCtx
    /\ contexts = {Ctx(1, 1)}
    /\ guards = EmptyBag
    /\ last = NoOp
    /\ bk = NoHistory
    /\ cli = NoProcess

NextKeep ==
    \/ BackupContext_new
    \/ \E c \in contexts, b \in BOOLEAN : set_interrupted(c, b)
    \/ \E c \in contexts, p \in KeepPaths : register_operation_recorded(c, p)
    \/ \E g \in BagToSet(guards) : complete_recorded(g)
    \/ \E g \in BagToSet(guards) : drop(g)
    \/ \E c \in contexts : cleanup_active_operations_with_mode(c)

SpecKeep == InitKeep /\ [][NextKeep]_vars

-----------------------------------------------------------------------------
(* SpecGlobal: client code that works through the global functions of      *)
(* signal.rs (create_backup_guard, set_interrupt_flag, set_global_context, *)
(* the global cleanup) on one destination directory, as the tests of       *)
(* backup.rs do.  The interrupt flag of a context is only ever set here,   *)
(* never reset.                                                            *)

\* the destinations hold what earlier, unfinished operations wrote
InitGlobal == InitRegistry /\ Exists(fs, RegDir)

NextGlobal ==
    \/ BackupContext_new
    \/ \E c \in contexts : set_global_context(c)
    \/ \E f \in 1..Len(flagVal) : set_interrupt_flag(f)
    \/ \E c \in contexts : set_interrupted(c, TRUE)
    \/ \E p \in {RegDir} : create_backup_guard(p)
    \/ \E g \in BagToSet(guards) : complete(g)
    \/ \E g \in BagToSet(guards) : drop(g)
    \/ \E c \in {global} \ {NoCtx} : cleanup_active_operations_with_mode(c)

SpecGlobal == InitGlobal /\ [][NextGlobal]_vars

-----------------------------------------------------------------------------
(* SpecText: the functions of naming.rs and create_temp_backup_path on     *)
(* file names as text: a name is the sequence of its characters.           *)

\* the longest source name built from the alphabet
MaxNameLen == 4

\* the characters the enumerated source names are built from
Alphabet == {"a", ".", ":"}

Lower == <<"a", "c", "l", "m", "n", "o", "p", "r", "t", "u", "x">>
Upper == <<"A", "C", "L", "M", "N", "O", "P", "R", "T", "U", "X">>

\* char::to_uppercase on the letters of the model
to_uppercase_char(c) ==
    IF \E i \in 1..Len(Lower) : Lower[i] = c
    THEN Upper[CHOOSE i \in 1..Len(Lower) : Lower[i] = c]
    ELSE c

\* str::to_uppercase
to_uppercase(s) == [i \in 1..Len(s) |-> to_uppercase_char(s[i])]

\* char::is_control
is_control(c) == c = "\t"

\* the timestamp of the run in the format %Y%m%dT%H%M%S, and the suffix
TimestampText ==
    <<"2", "0", "2", "5", "0", "1", "0", "1", "T", "1", "2", "0", "0", "0", "0">>
SuffixText == <<"q", "b", "a", "k">>

\* validate_filesystem_chars: INVALID_CHARS and RESERVED_NAMES
INVALID_CHARS == {"<", ">", ":", "\"", "|", "?", "*"}
RESERVED_NAMES ==
    {<<"C", "O", "N">>, <<"P", "R", "N">>, <<"A", "U", "X">>, <<"N", "U", "L">>}
        \cup {<<"C", "O", "M", d>> : d \in {"1", "2", "3", "4", "5", "6", "7", "8", "9"}}
        \cup {<<"L", "P", "T", d>> : d \in {"1", "2", "3", "4", "5", "6", "7", "8", "9"}}

\* the source names: every name over the alphabet, names on reserved
\* stems, a name with a control character and a name of 250 characters
SourceNames ==
    UNION {[1..n -> Alphabet] : n \in 1..MaxNameLen}
        \cup {<<"C", "O", "N", ".", "t", "x", "t">>, <<"c", "o", "n", ".", "t", "x", "t">>,
              <<"C", "O", "M", "1">>, <<"n", "u", "l">>, <<"l", "p", "t", "1", ".", "a">>,
              <<"c", "o", "n", "a">>, <<"a", "\t">>, [i \in 1..250 |-> "a"]}

\* the directories a source lies in
SourceDirs == {"/tmp", "."}

\* str::find: the position of the first c in s, counted from 1; 0 for None
find(s, c) ==
    IF \E i \in 1..Len(s) : s[i] = c
    THEN CHOOSE i \in 1..Len(s) : s[i] = c /\ \A j \in 1..(i - 1) : s[j] # c
    ELSE 0

\* str::rfind: the position of the last c in s, counted from 1; 0 for None
rfind(s, c) ==
    IF \E i \in 1..Len(s) : s[i] = c
    THEN CHOOSE i \in 1..Len(s) : s[i] = c /\ \A j \in (i + 1)..Len(s) : s[j] # c
    ELSE 0

\* naming::split_filename: <<stem, extension>>; dot_pos of the code is
\* rfind - 1
split_filename(filename) ==
    LET dot == rfind(filename, ".")
    IN  IF dot # 0 /\ dot - 1 > 0 /\ dot - 1 < Len(filename) - 1
        THEN <<SubSeq(filename, 1, dot - 1), SubSeq(filename, dot + 1, Len(filename))>>
        ELSE IF dot # 0 /\ dot - 1 = Len(filename) - 1
        THEN <<SubSeq(filename, 1, dot - 1), <<>>>>
        ELSE <<filename, <<>>>>

\* the format! of generate_backup_name
format_backup_name(stem, extension) ==
    IF extension = <<>>
    THEN stem \o <<"-">> \o TimestampText \o <<"-">> \o SuffixText
    ELSE stem \o <<"-">> \o TimestampText \o <<"-">> \o SuffixText
              \o <<".">> \o extension

\* naming::validate_filename_length on text
validate_filename_length_text(filename, max_length) ==
    IF Len(filename) > max_length THEN "FilenameTooLong" ELSE "Ok"

\* naming::validate_filesystem_chars on text
validate_filesystem_chars_text(filename) ==
    IF \E i \in 1..Len(filename) : filename[i] \in INVALID_CHARS
    THEN "InvalidFilesystemChars"
    ELSE IF to_uppercase(split_filename(filename)[1]) \in RESERVED_NAMES
    THEN "InvalidFilesystemChars"
    ELSE IF \E i \in 1..Len(filename) : is_control(filename[i])
    THEN "InvalidFilesystemChars"
    ELSE "Ok"

\* the process ids of the instances of qbak
Pids == {1, 2, 12, 21}

\* the decimal digits of n, as format! writes a u32
RECURSIVE to_string(_)
to_string(n) ==
    LET digit == <<"0", "1", "2", "3", "4", "5", "6", "7", "8", "9">>[(n % 10) + 1]
    IN  IF n < 10 THEN <<digit>> ELSE to_string(n \div 10) \o <<digit>>

TempPrefix == <<".", "q", "b", "a", "k", "_", "t", "e", "m", "p", "_">>

\* the temp name without the process id
temp_name_shared(process_id, filename) == TempPrefix \o filename

\* backup::create_temp_backup_path, the name: .qbak_temp_<pid>_<filename>
temp_name(process_id, filename) ==
    TempPrefix \o to_string(process_id) \o <<"_">> \o filename

\* Path::join
TextPath(dir, name) == [dir |-> dir, name |-> name]

\* the locals of generate_backup_name and the temp paths derived so far
NoText ==
    [pc |-> "start", source |-> TextPath(".", <<>>), stem |-> <<>>,
     extension |-> <<>>, backup_name |-> <<>>, ret |-> "none",
     backup_path |-> TextPath(".", <<>>), temps |-> {}]

\* Path::file_name: None for a path that ends in "." or ".."
file_name(p) == IF p.name \in {<<".">>, <<".", ".">>} THEN <<>> ELSE p.name

\* generate_backup_name up to split_filename(source_name): a path without
\* a final segment is a validation error
text_split ==
    /\ bk.pc = "start"
    /\ bk' = IF file_name(bk.source) = <<>>
             THEN [bk EXCEPT !.pc = "named", !.ret = "Validation"]
             ELSE [bk EXCEPT !.pc = "split",
                             !.stem = split_filename(file_name(bk.source))[1],
                             !.extension = split_filename(file_name(bk.source))[2]]
    /\ UNCHANGED <<fs, undeletable, flagVal, regOps, global, contexts, guards,
                   last, cli>>

\* generate_backup_name from the format! to its return
text_generate ==
    /\ bk.pc = "split"
    /\ LET backup_name == format_backup_name(bk.stem, bk.extension)
           err == IF validate_filename_length_text(backup_name, max_filename_length) # "Ok"
                  THEN validate_filename_length_text(backup_name, max_filename_length)
                  ELSE validate_filesystem_chars_text(backup_name)
       IN  bk' = [bk EXCEPT !.pc = "named", !.backup_name = backup_name,
                            !.ret = err,
                            !.backup_path = IF err = "Ok"
                                            THEN TextPath(bk.source.dir, backup_name)
                                            ELSE @]
    /\ UNCHANGED <<fs, undeletable, flagVal, regOps, global, contexts, guards,
                   last, cli>>

\* create_temp_backup_path(&final_backup_path) in the instance process_id
text_temp(process_id) ==
    /\ bk.pc = "named"
    /\ bk.ret = "Ok"
    /\ bk' = [bk EXCEPT !.temps = @ \cup
                 {[process_id |-> process_id,
                   path |-> TextPath(bk.backup_path.dir,
                                     temp_name(process_id, bk.backup_path.name))]}]
    /\ UNCHANGED <<fs, undeletable, flagVal, regOps, global, contexts, guards,
                   last, cli>>

InitText ==
    /\ fs = <<>>
    /\ undeletable = {}
    /\ flagVal = <<>>
    /\ regOps = <<>>
    /\ global = NoCtx
    /\ contexts = {}
    /\ guards = EmptyBag
    /\ last = NoOp
    /\ \E d \in SourceDirs, n \in SourceNames :
          bk = [NoText EXCEPT !.source = TextPath(d, n)]
    /\ cli = NoProcess

NextText ==
    \/ text_split
    \/ text_generate
    \/ \E process_id \in Pids : text_temp(process_id)

SpecText == InitText /\ [][NextText]_vars

-----------------------------------------------------------------------------
(* SpecUtils: cleanup_temp_files (backup.rs) and calculate_size (utils.rs)  *)
(* called on directories that hold temp files of this and of another       *)
(* process, entries named like temp files, ordinary entries and symbolic   *)
(* links to an ancestor directory.                                         *)

\* a temp file this process left in the working directory, one another
\* process left there, a directory and a link named like temp files
StaleOwn == create_temp_backup_path(<<BakName("f")>>)
StaleOther == <<[BakName("f") EXCEPT !.tmp = ProcessId + 1]>>
StaleDir == create_temp_backup_path(<<BakName("d")>>)
StaleLink == create_temp_backup_path(<<BakName("l")>>)

\* a temp file inside the source directory
StaleNested == create_temp_backup_path(Append(SrcDir, BakName("a")))

\* a link in the subdirectory of the source directory
SrcSubLink == Append(SrcSub, Name("l"))

\* the entries a disk of SpecUtils may hold beside the source directory
UtilNodes ==
    [q \in {StaleOwn, StaleOther, StaleDir, StaleLink, StaleNested, SrcFile,
            SrcA, SrcSub, SrcLink, SrcSubLink} |->
        IF q \in {StaleDir, SrcSub} THEN DirNode
        ELSE IF q = StaleLink THEN LinkNode(SrcFile)
        ELSE IF q \in {SrcLink, SrcSubLink} THEN LinkNode(SrcDir)
        ELSE IF q = SrcA THEN FileNode(Data(MaxChunks))
        ELSE FileNode(Data(1))]

UtilDisks ==
    {Put(Restrict(UtilNodes, S), SrcDir, DirNode) :
        S \in {X \in SUBSET DOMAIN UtilNodes : SrcSubLink \in X => SrcSub \in X}}

NoUtil == [pc |-> "idle", path |-> <<>>, ret |-> "Ok", size |-> 0]

\* a call of cleanup_temp_files(dir); swept records what it removed
cleanup_temp_files_call(dir) ==
    /\ fs' = cleanup_temp_files(fs, undeletable, dir)
    /\ bk' = [pc |-> "swept", path |-> dir, ret |-> "Ok", size |-> 0]
    /\ last' = [Op("sweep", dir, 0, FALSE) EXCEPT !.swept = DOMAIN fs \ DOMAIN fs']
    /\ UNCHANGED <<undeletable, flagVal, regOps, global, contexts, guards, cli>>

\* a call of calculate_size(path)
calculate_size_call(path) ==
    /\ bk' = [pc |-> "sized", path |-> path,
              ret |-> calculate_size(fs, path).ret,
              size |-> calculate_size(fs, path).size]
    /\ last' = NoOp
    /\ UNCHANGED <<fs, undeletable, flagVal, regOps, global, contexts, guards, cli>>

SweepDirs == {<<>>, SrcDir, SrcFile, SrcMissing, StaleDir}
SizePaths == {SrcDir, SrcSub, SrcFile, SrcLink, SrcMissing}

InitUtils ==
    /\ fs \in UtilDisks
    /\ undeletable = {}
    /\ flagVal = <<>>
    /\ regOps = <<>>
    /\ global = NoCtx
    /\ contexts = {}
    /\ guards = EmptyBag
    /\ last = NoOp
    /\ bk = NoUtil
    /\ cli = NoProcess

NextUtils ==
    \/ \E dir \in SweepDirs : cleanup_temp_files_call(dir)
    \/ \E path \in SizePaths : calculate_size_call(path)

SpecUtils == InitUtils /\ [][NextUtils]_vars

-----------------------------------------------------------------------------
(* Properties of the atomic copy, the walk and the command-line driver.    *)

\* the pairs <<destination file, source file>> of the backup in hand
DestPairs ==
    IF bk.final = <<>> THEN {}
    ELSE {<<bk.final \o SubSeq(q, Len(bk.source) + 1, Len(q)), q>> :
            q \in {r \in DOMAIN fs : IsPrefix(bk.source, r) /\ IsFile(fs, r)}}

\* C1: once the chunked copy has observed the interrupt flag at its chunk
\* poll and Interrupted is on its way out of (or has left) backup_file or
\* copy_file_to_backup, neither the temp file nor the final destination of
\* that copy exists.
C1_InterruptedCopyLeavesNothing ==
    (bk.ret = "Interrupted" /\ bk.at = "chunk") =>
        /\ ~Exists(fs, bk.cp.temp)
        /\ ~Exists(fs, bk.cp.dst)

\* C1 witness: backup_file has returned Interrupted from a chunk poll that
\* came after a chunk had been written to the temp file.
C1_Witness ==
    /\ bk.pc = "returned"
    /\ bk.variant = "file"
    /\ bk.ret = "Interrupted"
    /\ bk.at = "chunk"
    /\ bk.cp.pos >= 1

\* C2, content: a final destination file that exists holds the complete
\* content of its source.
C2_FinalIsComplete ==
    \A pr \in DestPairs :
        IsFile(fs, pr[1]) => fs[pr[1]].data = fs[pr[2]].data

\* C2, creation: a step that brings a final destination file into being is
\* the rename of that copy's temp file, taken after the last chunk was
\* written.
C2_CreatedByRename ==
    \A pr \in DestPairs :
        (~Exists(fs, pr[1]) /\ Exists(fs', pr[1])) =>
            /\ bk.pc = "rename"
            /\ bk.cp.dst = pr[1]
            /\ bk.cp.pos = Len(fs[pr[2]].data)
            /\ Exists(fs, bk.cp.temp)
            /\ ~Exists(fs', bk.cp.temp)

\* C2: the final destination file is created only by the rename of the temp
\* file after the last chunk was written and flushed, so whenever it exists
\* it holds the complete source content.
C2_FinalOnlyByRenameAndComplete ==
    /\ []C2_FinalIsComplete
    /\ [][C2_CreatedByRename]_vars

\* C2 witness: a directory backup is still walking and one of its
\* destination files, of more than one chunk, is in place.
C2_Witness ==
    /\ bk.pc \in {"walk", "entry", "open", "poll", "read", "rename"}
    /\ \E pr \in DestPairs : IsFile(fs, pr[1]) /\ Len(fs[pr[1]].data) > 1

\* C3: when a directory backup has returned Interrupted from a poll of its
\* walk (at an entry or at a chunk), its guard has been dropped and cleanup()
\* has run after that (and not while the backup was in flight), nothing
\* exists at or under the destination and the registry is empty.
C3_InterruptedWalkCleanedUp ==
    (/\ bk.variant \in {"dir", "dir_progress"}
     /\ bk.pc = "returned"
     /\ bk.ret = "Interrupted"
     /\ bk.at \in {"entry", "chunk"}
     /\ ~bk.raced
     /\ last.op = "cleanup"
     /\ last.reg = bk.guard.context.reg)
    => /\ Under(fs, bk.final) = {}
       /\ regOps[last.reg] = {}

\* C3 witness: such a cleanup has run on a destination tree that existed
\* and held files the walk had written in full.
C3_Witness ==
    /\ bk.variant \in {"dir", "dir_progress"}
    /\ bk.pc = "returned"
    /\ bk.ret = "Interrupted"
    /\ bk.at \in {"entry", "chunk"}
    /\ ~bk.raced
    /\ last.op = "cleanup"
    /\ last.reg = bk.guard.context.reg
    /\ bk.final \in last.existed
    /\ bk.files_processed >= 1

\* C15, the polls: a step that brings the copy to a chunk read or the walk
\* to an entry dispatch is a poll of the flag that returned false.
C15_PollBeforeStep ==
    /\ (bk'.pc = "read" /\ bk.pc # "read") => (bk.pc = "poll" /\ ~is_interrupted)
    /\ (bk'.pc = "entry" /\ bk.pc # "entry") => (bk.pc = "walk" /\ ~is_interrupted)

\* C15, the consequence: at most one chunk read and at most one entry
\* dispatch begin while the flag is set.
C15_AtMostOneLate == bk.late_reads <= 1 /\ bk.late_entries <= 1

\* C15: every chunk read of a copy and every entry dispatch of a walk is
\* immediately preceded by a poll of the interrupt flag that returned
\* false; once the flag is set, at most the one chunk read and the one
\* entry dispatch whose poll had already passed still begin.
C15_PollsGuardReadsAndDispatches ==
    /\ []C15_AtMostOneLate
    /\ [][C15_PollBeforeStep]_vars

\* C15 witness: the flag was set between a chunk poll and its read; that
\* read was made, the next poll ended the backup with Interrupted.
C15_Witness ==
    /\ bk.late_reads = 1
    /\ bk.ret = "Interrupted"
    /\ bk.at = "chunk"
    /\ bk.pc = "returned"

\* C19: when backup_file has returned Ok, files_processed is 1 and
\* total_size is the length of the source (0 for an empty source), and the
\* destination (unless a cleanup that ran during the call deleted it) is a
\* file with the content of the source.
C19_BackupFileResult ==
    (bk.variant = "file" /\ bk.pc = "returned" /\ bk.ret = "Ok") =>
        /\ bk.files_processed = 1
        /\ bk.total_size = Len(fs[bk.source].data)
        /\ ~bk.raced => /\ IsFile(fs, bk.final)
                        /\ fs[bk.final].data = fs[bk.source].data

\* C19 witness: backup_file has returned Ok for an empty source and the
\* empty destination is in place.
C19_Witness ==
    /\ bk.variant = "file"
    /\ bk.pc = "returned"
    /\ bk.ret = "Ok"
    /\ bk.total_size = 0
    /\ IsFile(fs, bk.final)
    /\ fs[bk.final].data = <<>>

\* C17: once a backup entry point has been called on a source whose
\* generated backup name is too long or holds invalid characters, it has
\* returned that error, and nothing was created on disk, nothing was
\* registered and no context was installed.
C17_NameRejectedWithoutEffects ==
    (/\ bk.pc # "idle"
     /\ bk.source \in {SrcLong, SrcBad}
     /\ ~(bk.variant = "dir" /\ bk.source = SrcLong))
    => /\ bk.pc = "returned"
       /\ bk.ret = IF bk.source = SrcLong THEN "FilenameTooLong"
                   ELSE "InvalidFilesystemChars"
       /\ fs \in InitDisks
       /\ guards = EmptyBag
       /\ regOps = <<{}>>
       /\ Len(flagVal) = 1

\* C17 witness: backup_directory_with_progress has returned the
\* filename-too-long error.
C17_Witness ==
    /\ bk.pc = "returned"
    /\ bk.variant = "dir_progress"
    /\ bk.ret = "FilenameTooLong"

\* the targets whose backup always fails with an error that is none of
\* source-not-found, permission-denied and validation, and those whose
\* backup always fails with one of these
FatalTargets == {SrcLong}
RecoverableTargets == {SrcMissing, SrcRevoked}

\* C16, the outcome: the loop never moves past a target that fails fatally;
\* when main ends the run, either the target in hand has returned an error
\* that is none of the three recoverable kinds and the exit code is that
\* error's, or every target was processed and counted, those after a
\* source-not-found or permission-denied failure included.
C16_RunOutcome ==
    /\ \A j \in 1..Len(cli.targets) :
          j < cli.next => cli.targets[j] \notin FatalTargets
    /\ (cli.exited /\ cli.by = "main") =>
          /\ cli.next <= Len(cli.targets) =>
                /\ bk.pc = "returned"
                /\ bk.source = cli.targets[cli.next]
                /\ bk.ret \in {"FilenameTooLong", "InvalidFilesystemChars",
                               "Io", "Interrupted"}
                /\ cli.exit_code = exit_code(bk.ret)
                /\ cli.success_count + cli.error_count = cli.next
          /\ cli.next > Len(cli.targets) =>
                /\ cli.next = Len(cli.targets) + 1
                /\ cli.success_count + cli.error_count = Len(cli.targets)
                /\ cli.error_count =
                      Cardinality({i \in 1..Len(cli.targets) :
                                     cli.targets[i] \in RecoverableTargets})
                /\ cli.exit_code = IF cli.error_count > 0 THEN 1 ELSE 0

\* C16, the steps: the loop moves on by one target, and only from a target
\* that succeeded or failed with source-not-found, permission-denied or a
\* validation error; a target is only begun while main has not ended the run.
C16_LoopStep ==
    /\ cli'.next # cli.next =>
          /\ cli'.next = cli.next + 1
          /\ bk.pc = "returned"
          /\ bk.ret \in {"Ok", "SourceNotFound", "PermissionDenied", "Validation"}
    /\ (bk.pc = "idle" /\ bk'.pc # "idle") =>
          /\ ~cli.exited
          /\ bk'.source = cli.targets[cli.next]

\* C16: recoverable failures do not stop the per-target loop, any other
\* failure ends the run at once.
C16_RecoverableContinuesFatalAborts == []C16_RunOutcome /\ [][C16_LoopStep]_vars

\* C16 witness: the run has ended after a first target that was not found
\* and a second target that was backed up.
C16_Witness ==
    /\ cli.exited /\ cli.by = "main"
    /\ Len(cli.targets) = 2
    /\ cli.targets[1] = SrcMissing
    /\ cli.error_count = 1
    /\ cli.success_count = 1

\* C18: when resolve_collision returns, the result is the candidate if the
\* candidate does not exist; otherwise it is the variant with the smallest
\* counter in 1..9999 that does not exist; it is an error, with no path,
\* exactly when the candidate and all 9999 variants exist; a returned path
\* does not exist; and the second call on the same directory returns what
\* the first returned.
C18_ResolveCollision ==
    bk.pc = "resolved" =>
        /\ ~Exists(fs, bk.source) => (bk.ret = "Ok" /\ bk.final = bk.source)
        /\ (Exists(fs, bk.source) /\ bk.ret = "Ok") =>
              /\ bk.final = Numbered(bk.source, bk.final[Len(bk.final)].n)
              /\ bk.final[Len(bk.final)].n \in 1..MaxCollision
              /\ \A j \in 1..(bk.final[Len(bk.final)].n - 1) :
                    Exists(fs, Numbered(bk.source, j))
        /\ bk.ret = "Ok" => ~Exists(fs, bk.final)
        /\ bk.ret \in {"Ok", "Validation"}
        /\ bk.ret = "Validation" <=>
              /\ Exists(fs, bk.source)
              /\ \A k \in 1..MaxCollision : Exists(fs, Numbered(bk.source, k))
        /\ bk.ret = "Validation" => bk.final = <<>>
        /\ bk.calls = 2 => bk.final = bk.prev
        /\ bk.final = resolve_collision(fs, bk.source)

\* C18 witness: the second call has returned the variant with counter 2,
\* the candidate and its first variant being taken.
C18_Witness ==
    /\ bk.pc = "resolved"
    /\ bk.calls = 2
    /\ bk.final = Numbered(Candidate, 2)

\* C20 as stated: a directory backup with progress that succeeded, with no
\* cleanup running meanwhile, processed as many files as its pre-scan
\* counted in the same, unchanged source tree.
C20_ScanCountEqualsFilesProcessed ==
    (/\ bk.pc = "returned"
     /\ bk.variant = "dir_progress"
     /\ bk.ret = "Ok"
     /\ ~bk.raced)
    => /\ bk.file_count = count_files_and_size_recursive(fs, bk.source, bk.config)
       /\ bk.file_count = bk.files_processed

\* C4 as stated: when the run has ended by interruption (the handler's exit,
\* or Interrupted handed to main), no registered destination is on disk.
C4_InterruptedExitLeavesNoRegisteredPath ==
    (cli.exited /\ (cli.by = "handler" \/ bk.ret = "Interrupted")) =>
        \A p \in get_active_operations : ~Exists(fs, p)

\* C5 as stated: a poll of the copy or the walk made after the signal
\* handler has set its flag finds is_interrupted() true.
C5_PollSeesHandlerFlag ==
    (last.op = "poll" /\ cli.handler \in {"stored", "swept"}) => last.seen

-----------------------------------------------------------------------------
(* Properties of the registry and its guards.                              *)

\* g is the only guard on its path in its registry
Sole(g) ==
    /\ CopiesIn(g, guards) = 1
    /\ \A h \in BagToSet(guards) :
          h # g => ~(h.backup_path = g.backup_path /\ h.context.reg = g.context.reg)

\* C6, the drop: a step that drops a guard without complete() while its
\* interrupt flag is set leaves the guard's path in the registry.
C6_DropStep ==
    (/\ last'.op = "drop"
     /\ last'.seen
     /\ last'.path \in regOps[last'.reg])
    => last'.path \in regOps'[last'.reg]

\* C6, until cleanup: while a guard dropped under interruption is the only
\* guard on its path, no step other than a cleanup of its registry takes the
\* path out of the registry.
C6_StaysStep ==
    \A g \in BagToSet(guards) :
        (/\ g.phase = "leaked"
         /\ Sole(g)
         /\ g.backup_path \in regOps[g.context.reg])
        => \/ g.backup_path \in regOps'[g.context.reg]
           \/ (last'.op = "cleanup" /\ last'.reg = g.context.reg)

\* C6, after cleanup: when cleanup() has returned, every path that a guard
\* dropped under interruption had left in the registry is out of the
\* registry and no longer exists on disk.
C6_CleanupRemoves ==
    last.op = "cleanup" =>
        \A p \in last.swept \cap last.paths :
            p \notin regOps[last.reg] /\ ~Exists(fs, p)

\* C6: a guard for path p dropped without complete() while the interrupt
\* flag is set leaves p in the registry's active set until cleanup() runs;
\* after cleanup() p is absent from the set and from the disk.
C6_InterruptedDropLeavesPathForCleanup ==
    /\ []C6_CleanupRemoves
    /\ [][C6_DropStep /\ C6_StaysStep]_vars

\* C6 witness: cleanup() has returned after deleting the existing path of a
\* guard that was dropped under interruption.
C6_Witness ==
    /\ last.op = "cleanup"
    /\ last.swept \cap last.existed # {}

\* C7: right after a guard was dropped without complete() while its
\* interrupt flag was not set, its path is not in the registry.
C7_PlainDropRemovesPath ==
    (last.op = "drop" /\ ~last.seen) => last.path \notin regOps[last.reg]

\* C7 witness: a guard was dropped without interruption while another path
\* stays registered.
C7_Witness ==
    /\ last.op = "drop"
    /\ ~last.seen
    /\ regOps[last.reg] # {}

\* C8: right after complete() the guard's path is not in the registry,
\* whatever the value of the interrupt flag.
C8_CompleteRemovesPath ==
    last.op = "complete" => last.path \notin regOps[last.reg]

\* C8 witness: complete() has returned with the interrupt flag set.
C8_Witness ==
    /\ last.op = "complete"
    /\ last.seen
    /\ flagVal[last.reg]

\* C9: a step that completes or drops a guard leaves the filesystem as it
\* was, and a step that changes the filesystem is a cleanup.
C9_Step ==
    /\ last'.op \in {"complete", "drop"} => fs' = fs
    /\ fs' # fs => last'.op = "cleanup"

\* C9: neither complete() nor the drop of a guard, with or without the
\* interrupt flag set, performs a filesystem action; only cleanup() deletes.
C9_ReleaseTouchesNoFile == [][C9_Step]_vars

\* C9 witness: a guard was dropped under interruption and the directory at
\* its path, with its content, is still on disk.
C9_Witness ==
    /\ last.op = "drop"
    /\ last.seen
    /\ last.path = RegDir
    /\ Exists(fs, Partial)

\* C10: when cleanup() has returned, the registry is empty, whether or not
\* the deletes succeeded and whether or not the paths existed.
C10_CleanupEmptiesRegistry ==
    last.op = "cleanup" => regOps[last.reg] = {}

\* C10 witness: cleanup() has returned from a snapshot that held a path
\* that did not exist and a path whose delete failed.
C10_Witness ==
    /\ last.op = "cleanup"
    /\ last.paths \ last.existed # {}
    /\ \E p \in last.existed : Exists(fs, p)

\* C11, the step: a cleanup step removes from the disk exactly the paths of
\* the active set that exist, a directory together with everything beneath
\* it, and leaves every other path and its content as they were.
C11_Step ==
    last'.op = "cleanup" =>
        /\ DOMAIN fs' = DOMAIN fs \ UNION {Under(fs, p) : p \in regOps[last'.reg]}
        /\ \A q \in DOMAIN fs' : fs'[q] = fs[q]

\* C11: cleanup() deletes every path of the active set that still exists, a
\* directory with its whole subtree and anything else as a file; paths that
\* are not in the active set are left untouched.
C11_CleanupDeletesExactlyActive == [][C11_Step]_vars

\* C11 witness: cleanup() has returned from an active set that held only
\* the directory, which existed; the unregistered file is still on disk.
C11_Witness ==
    /\ last.op = "cleanup"
    /\ last.existed = {RegDir}
    /\ ~Exists(fs, Partial)
    /\ Exists(fs, RegFile)

\* C12 as stated: in every state a path is in a registry exactly when an
\* operation registered for that path on that registry is in flight: its
\* guard exists and was neither completed nor released without interruption
\* (a guard dropped under interruption counts until the cleanup pass).
C12_RegisteredIffInFlight ==
    \A r \in 1..Len(regOps) : \A p \in RegPaths :
        p \in regOps[r] <=>
            \E g \in BagToSet(guards) : g.backup_path = p /\ g.context.reg = r

\* C13 as stated: a step that takes a path out of a registry is a
\* complete() of a guard on that path or a cleanup of that registry.
C13_OnlyCompleteOrCleanupStep ==
    \A r \in 1..Len(regOps) : \A p \in regOps[r] :
        p \notin regOps'[r] =>
            /\ last'.reg = r
            /\ \/ last'.op = "cleanup"
               \/ last'.op = "complete" /\ last'.path = p

C13_OnlyCompleteOrCleanupRemoves == [][C13_OnlyCompleteOrCleanupStep]_vars

\* C13, amended, the step: a step that takes a path out of a registry is a
\* complete() of a guard on that path, the drop of a guard on that path
\* while its interrupt flag is not set, or a cleanup of that registry.
C13_Step ==
    \A r \in 1..Len(regOps) : \A p \in regOps[r] :
        p \notin regOps'[r] =>
            /\ last'.reg = r
            /\ \/ last'.op = "cleanup"
               \/ last'.op = "complete" /\ last'.path = p
               \/ last'.op = "drop" /\ ~last'.seen /\ last'.path = p

\* C13, amended: an entry leaves a registry only through complete() of its
\* guard, through the drop of its guard without interruption, or through
\* the cleanup pass; no other operation (registration, setting the flag,
\* installing a global context or flag) removes a registered path.
C13_EntryLeavesOnlyByReleaseOrCleanup == [][C13_Step]_vars

\* C13 witness: a guard made by create_backup_guard was dropped without
\* interruption and its path has left the global registry, after
\* set_interrupt_flag had installed that registry.
C13_Witness ==
    /\ last.op = "drop"
    /\ ~last.seen
    /\ global # NoCtx
    /\ last.reg = global.reg
    /\ last.reg > 1
    /\ last.path \notin regOps[last.reg]

\* C14 as stated: a step of the session (no step is the test-only reset)
\* that starts with is_interrupted() true ends with is_interrupted() true.
C14_Step == is_interrupted => is_interrupted'

C14_InterruptFlagStaysSet == [][C14_Step]_vars

-----------------------------------------------------------------------------
(* Properties of names as text.                                            *)

\* the positions of the dots of the name s
Dots(s) == {i \in 1..Len(s) : s[i] = "."}

\* the largest element of a non-empty set of numbers
Max(S) == CHOOSE i \in S : \A j \in S : j <= i

\* C25: generate_backup_name splits the final segment of the source at its
\* last dot when that dot is neither the first nor the last character; a
\* trailing dot is dropped from the stem and gives no extension, any other
\* name gives no extension; the result is <stem>-<timestamp>-<suffix>,
\* followed by .<extension> exactly when the extension is not empty, in the
\* parent directory of the source.
C25_SplitAndFormat ==
    (bk.pc \in {"split", "named"} /\ bk.ret # "Validation") =>
        LET n == bk.source.name
            dots == Dots(n)
        IN  /\ (dots # {} /\ Max(dots) \notin {1, Len(n)}) =>
                  /\ bk.stem = SubSeq(n, 1, Max(dots) - 1)
                  /\ bk.extension = SubSeq(n, Max(dots) + 1, Len(n))
                  /\ bk.extension # <<>>
            /\ (dots # {} /\ Max(dots) = Len(n)) =>
                  /\ bk.stem = SubSeq(n, 1, Len(n) - 1)
                  /\ bk.extension = <<>>
            /\ (dots = {} \/ (Max(dots) = 1 /\ Len(n) > 1)) =>
                  /\ bk.stem = n
                  /\ bk.extension = <<>>
            /\ (bk.pc = "named" /\ bk.ret = "Ok") =>
                  /\ bk.backup_path.dir = bk.source.dir
                  /\ bk.backup_path.name =
                        bk.stem \o <<"-">> \o TimestampText \o <<"-">> \o SuffixText
                            \o (IF bk.extension = <<>> THEN <<>>
                                ELSE <<".">> \o bk.extension)

\* C25 witness: a name with a leading and an interior dot has been split at
\* the interior dot and its backup name returned.
C25_Witness ==
    /\ bk.pc = "named"
    /\ bk.ret = "Ok"
    /\ bk.source.name = <<".", "a", ".", "a">>
    /\ bk.extension = <<"a">>

\* C26 as stated: for a source whose stem is, without regard to case, a
\* reserved device name, generate_backup_name has returned the
\* invalid-characters error and no path.
C26_ReservedStemRejected ==
    (/\ bk.pc = "named"
     /\ to_uppercase(bk.stem) \in RESERVED_NAMES)
    => /\ bk.ret = "InvalidFilesystemChars"
       /\ bk.backup_path = NoText.backup_path

\* C23: every temp path derived for the final destination lies in the
\* directory of the destination, is named .qbak_temp_<pid>_<name of the
\* destination>, differs from the destination, and differs from the temp
\* path of every instance with another process id.
C23_TempPathsDistinct ==
    \A t \in bk.temps :
        /\ t.path.dir = bk.backup_path.dir
        /\ SubSeq(t.path.name, 1, Len(TempPrefix)) = TempPrefix
        /\ t.path.name =
              TempPrefix \o to_string(t.process_id) \o <<"_">> \o bk.backup_path.name
        /\ t.path # bk.backup_path
        /\ \A u \in bk.temps : u.process_id # t.process_id => u.path # t.path

\* C23 witness: the instances 1 and 12 have derived their temp paths for one
\* destination.
C23_Witness ==
    /\ \E t \in bk.temps : t.process_id = 1
    /\ \E t \in bk.temps : t.process_id = 12

-----------------------------------------------------------------------------
(* Properties of cleanup_temp_files and calculate_size.                    *)

\* the entries directly in dir that are not directories and carry the
\* .qbak_temp_ prefix
TempFilesIn(f, dir) ==
    {q \in DOMAIN f : /\ Len(q) = Len(dir) + 1
                      /\ IsPrefix(dir, q)
                      /\ q[Len(q)].tmp # 0
                      /\ f[q].kind # "dir"}

\* C24: cleanup_temp_files(dir) removes every file directly in dir whose
\* name starts with .qbak_temp_ and leaves every other entry as it was,
\* those of the subdirectories included; on a path that is not a directory
\* it succeeds and changes nothing.
C24_SweepRemovesTempFilesOnly ==
    [][last'.op = "sweep" =>
         /\ bk'.ret = "Ok"
         /\ IF DirExists(fs, last'.path)
            THEN /\ DOMAIN fs' = DOMAIN fs \ TempFilesIn(fs, last'.path)
                 /\ \A q \in DOMAIN fs' : fs'[q] = fs[q]
            ELSE fs' = fs]_vars

\* a sweep of the source directory removed the temp file in it and left the
\* temp file of the working directory
C24_Witness ==
    /\ last.op = "sweep"
    /\ last.path = SrcDir
    /\ last.swept = {StaleNested}
    /\ IsFile(fs, StaleOwn)
    /\ IsFile(fs, SrcA)

\* a sweep of a path that is a file
C24_WitnessNotDir ==
    /\ last.op = "sweep"
    /\ last.path = SrcFile
    /\ IsFile(fs, SrcFile)
    /\ IsFile(fs, StaleOwn)

\* the links beneath dir that point to dir or to a directory above it
AncestorLinks(f, dir) ==
    {q \in Under(f, dir) : /\ IsLink(f, q)
                           /\ IsDir(f, f[q].data)
                           /\ IsPrefix(f[q].data, Parent(q))}

\* C29: calculate_size of a directory that holds, at any depth, a link to
\* one of its ancestor directories returns the symlink-loop error.
C29_AncestorLinkIsLoopError ==
    (/\ bk.pc = "sized"
     /\ IsDir(fs, bk.path)
     /\ AncestorLinks(fs, bk.path) # {}) => bk.ret = "SymlinkLoop"

-----------------------------------------------------------------------------
(* Properties of the walk under the fields of Config.                      *)

\* the destination of the source path q in the backup in hand
DestOf(q) == bk.final \o SubSeq(q, Len(bk.source) + 1, Len(q))

\* q lies beneath the source with no hidden segment on the way, its own
\* name included
Visible(q) ==
    /\ IsPrefix(bk.source, q)
    /\ \A i \in (Len(bk.source) + 1)..Len(q) : ~q[i].dot

\* the regular files of the source tree the walk does not pass over
VisibleFiles ==
    {q \in Under(fs, bk.source) :
        IsFile(fs, q) /\ (bk.config.include_hidden \/ Visible(q))}

\* the walk has an entry in hand and this step deals with it
EntryStep == bk.pc = "entry" /\ bk' # bk

\* the step passes the entry over: nothing is written, counted or descended
Skipped ==
    /\ fs' = fs
    /\ bk'.pc = "walk"
    /\ bk'.stack = bk.stack
    /\ bk'.files_processed = bk.files_processed
    /\ bk'.total_size = bk.total_size

\* C21: with include_hidden unset the walk passes over exactly the entries
\* whose name begins with '.', so that no hidden entry and nothing beneath a
\* hidden directory is in the destination or in a count, while every other
\* regular file is copied and counted; with include_hidden set the walk
\* passes over no file and no directory.
C21_HiddenSkippedOthersCopied ==
    /\ [][EntryStep =>
            LET source_path == Append(Top.src, bk.entry)
            IN  IF ~bk.config.include_hidden /\ bk.entry.dot
                THEN Skipped
                ELSE /\ IsFile(fs, source_path) =>
                           /\ bk'.pc = "open"
                           /\ bk'.cp.src = source_path
                           /\ bk'.cp.dst = Append(Top.dst, bk.entry)
                     /\ IsDir(fs, source_path) =>
                           /\ IsDir(fs', Append(Top.dst, bk.entry))
                           /\ bk'.pc = "walk"
                           /\ Len(bk'.stack) = Len(bk.stack) + 1]_vars
    /\ [](bk.pc \notin {"idle", "register"} /\ ~bk.config.include_hidden =>
            \A q \in Under(fs, bk.final) :
               \A i \in (Len(bk.final) + 1)..Len(q) : ~q[i].dot)
    /\ [](bk.pc = "returned" /\ bk.ret = "Ok" =>
            /\ \A q \in VisibleFiles :
                  /\ IsFile(fs, DestOf(q))
                  /\ fs[DestOf(q)].data = fs[q].data
            /\ bk.files_processed =
                  Cardinality({q \in Under(fs, bk.final) : IsFile(fs, q)})
            /\ bk.variant = "dir_progress" =>
                  bk.file_count = Cardinality(VisibleFiles)
            /\ bk.config.include_hidden =>
                  \A q \in Under(fs, bk.source) :
                     ~IsLink(fs, q) => Exists(fs, DestOf(q)))

\* a walk without include_hidden ended well on a source that holds a hidden
\* file and a hidden directory: the other files are there and counted
C21_Witness ==
    /\ bk.pc = "returned"
    /\ bk.ret = "Ok"
    /\ ~bk.config.include_hidden
    /\ IsFile(fs, SrcHidden)
    /\ IsFile(fs, SrcHiddenDirFile)
    /\ IsFile(fs, DestOf(SrcA))
    /\ IsFile(fs, DestOf(SrcC))
    /\ bk.files_processed >= 2

\* a walk with include_hidden ended well and copied the hidden entries
C21_WitnessIncluded ==
    /\ bk.pc = "returned"
    /\ bk.ret = "Ok"
    /\ bk.config.include_hidden
    /\ IsFile(fs, DestOf(SrcHidden))
    /\ IsFile(fs, DestOf(SrcHiddenDirFile))

\* the directories of the source tree a walk of the backup in hand copies as
\* directories: the source itself and the subdirectories it does not pass over
CopiedDirs ==
    {q \in Under(fs, bk.source) :
        IsDir(fs, q) /\ (bk.config.include_hidden \/ Visible(q))}

\* C27: a directory backup with preserve_permissions, by either walker, that
\* ended well left every destination directory, the top-level one included,
\* with the permissions of its source directory.
C27_DirectoryPermissionsCopied ==
    (/\ bk.pc = "returned"
     /\ bk.ret = "Ok"
     /\ bk.variant \in {"dir", "dir_progress"}
     /\ bk.config.preserve_permissions)
    => \A q \in CopiedDirs :
          /\ IsDir(fs, DestOf(q))
          /\ fs[DestOf(q)].mode = fs[q].mode

\* the walk deals with an entry that is a symbolic link it does not pass
\* over as hidden
LinkStep ==
    /\ EntryStep
    /\ IsLink(fs, Append(Top.src, bk.entry))
    /\ bk.config.include_hidden \/ ~bk.entry.dot

\* C28: a symbolic link met by a walk.  With follow_symlinks a link to a
\* regular file becomes a copy of that file under the link's name, counted
\* in files_processed; a link to a directory becomes a directory that is
\* walked from the target; a link to nothing is passed over with no error
\* and no change of the result.  Without follow_symlinks the link itself is
\* re-created at the destination and files_processed stays as it was.
C28_SymlinkEntries ==
    /\ [][LinkStep =>
            LET source_path == Append(Top.src, bk.entry)
                backup_path == Append(Top.dst, bk.entry)
                target == fs[source_path].data
            IN  IF ~bk.config.follow_symlinks
                THEN /\ fs' = Put(fs, backup_path, LinkNode(target))
                     /\ bk'.pc = "walk"
                     /\ bk'.stack = bk.stack
                     /\ bk'.files_processed = bk.files_processed
                ELSE IF IsFile(fs, target)
                THEN /\ bk'.pc = "open"
                     /\ bk'.cp.src = target
                     /\ bk'.cp.dst = backup_path
                ELSE IF IsDir(fs, target)
                THEN /\ IsDir(fs', backup_path)
                     /\ bk'.pc = "walk"
                     /\ Len(bk'.stack) = Len(bk.stack) + 1
                     /\ bk'.stack[Len(bk'.stack)].src = target
                     /\ bk'.stack[Len(bk'.stack)].dst = backup_path
                     /\ bk'.stack[Len(bk'.stack)].todo = read_dir(fs, target)
                ELSE /\ Skipped
                     /\ bk'.ret = bk.ret]_vars
    /\ [][bk.pc = "rename" /\ bk'.pc = "walk" =>
            /\ IsFile(fs', bk.cp.dst)
            /\ fs'[bk.cp.dst].data = fs[bk.cp.src].data
            /\ bk'.files_processed = bk.files_processed + 1]_vars
    /\ [](bk.pc = "returned" /\ bk.ret = "Ok" =>
            LET target == fs[SrcLink].data
                link == DestOf(SrcLink)
            IN  IF ~bk.config.follow_symlinks
                THEN IsLink(fs, link) /\ fs[link].data = target
                ELSE IF IsFile(fs, target)
                THEN IsFile(fs, link) /\ fs[link].data = fs[target].data
                ELSE IF IsDir(fs, target)
                THEN /\ IsDir(fs, link)
                     /\ \A e \in read_dir(fs, target) :
                           IsFile(fs, Append(target, e)) =>
                              IsFile(fs, Append(link, e))
                ELSE ~Exists(fs, link))

\* a walk that follows links ended well: the link to a file is a regular
\* file at the destination, counted with the five other files
C28_Witness ==
    /\ bk.pc = "returned"
    /\ bk.ret = "Ok"
    /\ bk.config.follow_symlinks
    /\ bk.config.include_hidden
    /\ fs[SrcLink].data = SrcC
    /\ IsFile(fs, DestOf(SrcLink))
    /\ bk.files_processed = 5

\* a walk that follows links ended well on a link to nothing
C28_WitnessDangling ==
    /\ bk.pc = "returned"
    /\ bk.ret = "Ok"
    /\ bk.config.follow_symlinks
    /\ fs[SrcLink].data = SrcMissing
    /\ ~Exists(fs, DestOf(SrcLink))

\* a walk that follows links ended well on a link to a directory
C28_WitnessDirectory ==
    /\ bk.pc = "returned"
    /\ bk.ret = "Ok"
    /\ bk.config.follow_symlinks
    /\ fs[SrcLink].data = SrcSub
    /\ IsFile(fs, Append(DestOf(SrcLink), Name("c")))

\* a walk that does not follow links ended well
C28_WitnessRecreated ==
    /\ bk.pc = "returned"
    /\ bk.ret = "Ok"
    /\ ~bk.config.follow_symlinks
    /\ IsLink(fs, DestOf(SrcLink))

\* something of the backup in hand is on disk: its destination, an entry
\* under it, or the temp file of its destination
ArtifactOnDisk ==
    \E q \in DOMAIN fs :
       IsPrefix(bk.final, q) \/ q = create_temp_backup_path(bk.final)

\* C30: while backup_file, backup_directory or
\* backup_directory_with_progress is at work (from the resolved name up to
\* its return) and something of its backup is on disk, the final path is in
\* the registry of the context the guard registered it with.
C30_PartialArtifactIsRegistered ==
    (/\ bk.pc \notin {"idle", "register", "returned"}
     /\ ArtifactOnDisk)
    => bk.final \in ctx_get_active_operations(bk.guard.context)

-----------------------------------------------------------------------------
(* Properties of the dry run.                                              *)

\* C22: in a dry run no step of the main thread changes the filesystem or
\* the registry: nothing is ever registered, no guard is made, and the disk
\* holds no temp file and no backup beyond those it started with.
C22_DryRunChangesNothing ==
    /\ [][cli.dry_run /\ bk' # bk =>
            /\ fs' = fs
            /\ regOps' = regOps
            /\ guards' = guards
            /\ global' = global]_vars
    /\ [](cli.dry_run =>
            /\ fs \in InitDisks
            /\ regOps = <<>>
            /\ guards = EmptyBag
            /\ global = NoCtx
            /\ \A q \in DOMAIN fs : q[Len(q)].tmp = 0)

\* a dry run went through a directory and has just returned Ok for a file
\* whose backup name it resolved
C22_Witness ==
    /\ cli.dry_run
    /\ cli.targets = <<SrcDir, SrcFile>>
    /\ cli.next = 2
    /\ cli.success_count = 1
    /\ bk.pc = "returned"
    /\ bk.variant = "dry_run"
    /\ bk.ret = "Ok"
    /\ bk.source = SrcFile
    /\ bk.final = generate_backup_name(SrcFile)

-----------------------------------------------------------------------------
(* Properties of the copy under failures of the operating system.          *)

\* the regular files with final names in the destination tree of the backup
\* in hand
RenamedFiles(f) == {q \in Under(f, bk.final) : IsFile(f, q) /\ q[Len(q)].tmp = 0}

C37_NoTempAfterError ==
    (/\ bk.pc = "returned"
     /\ bk.ret \notin {"Ok", "Interrupted"}
     /\ bk.at \in {"chunk", "rename"})
    => ~Exists(fs, bk.cp.temp)

\* C33: when the flag is set and cleanup() has just deleted the destination
\* of a directory backup that is still at work, the next step of the walk
\* re-creates nothing at or under the destination.
C33_WalkRecreatesNothingAfterCleanup ==
    [][(/\ bk.variant \in {"dir", "dir_progress"}
        /\ bk.pc \notin {"idle", "register", "returned"}
        /\ bk' # bk
        /\ last.op = "cleanup"
        /\ last.reg = bk.guard.context.reg
        /\ bk.final \in last.existed
        /\ is_interrupted
        /\ Under(fs, bk.final) = {})
       => Under(fs', bk.final) = {}]_vars

-----------------------------------------------------------------------------
(* Properties of the registry under sharing and concurrency.               *)

\* C35: when a guard is completed or dropped while another live guard for
\* the same path is bound to the same registry, the path stays registered.
C35_SharedPathStaysRegistered ==
    [][(/\ last'.op \in {"complete", "drop"}
        /\ guards' # guards
        /\ last'.path \in regOps[last'.reg]
        /\ \E h \in BagToSet(guards') :
              /\ h.phase = "live"
              /\ h.backup_path = last'.path
              /\ h.context.reg = last'.reg)
       => last'.path \in regOps'[last'.reg]]_vars

\* C36: a path registered through create_backup_guard whose guard was
\* dropped under interruption, and which no cleanup has visited since, is in
\* the snapshot the global get_active_operations() returns.
C36_LeakedPathInGlobalSnapshot ==
    \A g \in BagToSet(guards) :
       g.phase = "leaked" => g.backup_path \in get_active_operations

-----------------------------------------------------------------------------
(* Properties of finished backups and of the split cleanup.                *)

\* C32 as stated: a backup that was on disk when its guard was completed,
\* and whose path was not registered again, exists after any registrations,
\* interrupts, drops and cleanups that follow.
C32_CompletedNeverDeleted ==
    \A p \in bk.completed : Exists(fs, p)

\* C32: a backup that was on disk when its guard was completed exists after
\* any registrations, interrupts, drops and cleanups that follow, provided
\* that at the call of complete() its path was in no other context's
\* registry and no ancestor of it was registered, and that neither the path
\* nor an ancestor of it was registered afterwards.
C32_ExclusiveCompletedNeverDeleted ==
    \A p \in bk.exclusive : Exists(fs, p)

\* a backup completed under interruption, its registry cleaned up afterwards
C32_Witness ==
    /\ last.op = "cleanup"
    /\ \E p \in bk.exclusive : Exists(fs, p) /\ regOps[last.reg] = {}
    /\ \E r \in DOMAIN flagVal : flagVal[r]
    /\ last.existed # {}

\* C34: the clear at the end of cleanup() removes from the registry only
\* paths of the snapshot it iterated: a path that was registered after the
\* snapshot was taken is still registered when cleanup() returns.
C34_ClearRemovesOnlySnapshot ==
    [][cli.pc = "clear" /\ cli'.pc = "idle" =>
         \A p \in ctx_get_active_operations(cli.context) \ cli.active_ops :
            p \in regOps'[cli.context.reg]]_vars

-----------------------------------------------------------------------------
(* Termination of the walk.                                                *)

====
